---- MODULE Spec2Model ----
(***************************************************************************)
(* A model of the per-symbol matching engine: the order book (price       *)
(* levels, the lazily cleaned best-price heap, the order index), the      *)
(* matching routines for MARKET / LIMIT / IOC / FOK takers, cancel, and   *)
(* the bounded persistence order queue that matching enqueues on.         *)
(*                                                                         *)
(* Decimals are exact in the source; prices and quantities are modelled   *)
(* as integers (a fixed scale).  Order objects are shared by reference in  *)
(* the source (the index and the level hold the same object): the index    *)
(* `orders` is the only store of the resting orders' fields and the        *)
(* levels hold order ids.                                                  *)
(***************************************************************************)
EXTENDS Integers, Sequences, FiniteSets, TLC

\* ---------------------------------------------------------------- bounds
MaxPrice == 2
MaxQty == 2
MaxOrders == 3
\* the capacity of _order_queue (asyncio.Queue(maxsize=10000) in the source),
\* scaled down to one the model can fill
QueueCap == 2
\* the length of the trade ring (deque(maxlen=10000) in the source), scaled
RingCap == 2
\* the precision of the decimal context, in significant digits (28 in
\* Python's default context, which the source does not change), scaled
DecimalPrec == 2
\* the prices and quantities _create_trade_fast is applied to on its own
MaxFeePrice == 12
MaxFeeQty == 12

\* the calls in flight at once
MaxTasks == 2

\* the subscribers of each kind
MaxSubs == 2

\* ------------------------------------------------------------- constants
\* Order.price is Optional: None is modelled by 0, a value no valid price has
\* (validation rejects price <= 0); -1 stands for an invalid supplied price.
NoPrice == 0
BadPrice == 0 - 1
\* _persistence_worker takes at most batch_size records per pass.
batch_size == 100

\* get_depth(levels=10)
depth_levels == 10
\* the default fee rates Decimal("0.001") and Decimal("0.002"), in units of
\* one thousandth
maker_fee == 1
taker_fee == 2

BUY == "buy"
SELL == "sell"
MARKET == "market"
LIMIT == "limit"
IOC == "ioc"
FOK == "fok"
STOP_LOSS == "stop_loss"
PENDING == "pending"
PARTIALLY_FILLED == "partially_filled"
FILLED == "filled"
CANCELLED == "cancelled"
REJECTED == "rejected"

Prices == 1..MaxPrice

VARIABLES
    order_book,     \* [bid_side, ask_side, orders]
    trades,         \* the trade ring self.trades
    order_queue,    \* number of records waiting in _order_queue
    trade_queue,    \* number of records waiting in _trade_queue
    pending_trades, \* _pending_trades, the trades waiting for broadcast
    bbo_dirty,      \* _bbo_dirty
    nextId,         \* the next fresh order id (uuid4 in the source)
    clock,          \* the last value datetime.utcnow() returned
    last,           \* the last call and what it returned to the caller
    tasks,          \* the coroutine frames of the calls in flight
    running,        \* the task the event loop is running, 0 when it is idle
    book_lock,      \* _book_lock: [locked, waiters]
    subscribers,    \* [trade, market_data]: the two lists of callbacks
    bw,             \* the frame of the coroutine _broadcast_worker
    trade_received, \* per trade callback, the trades it was called with
    md_received,    \* per market-data callback, its last payload
    produced,       \* every trade _create_trade_fast built, in order
    db,             \* the SQLite file: [orders, snapshot]
    queued,         \* the order ids of the records in _order_queue
    orders_batch,   \* the order ids _persistence_worker holds, unwritten
    objects,        \* the Order objects the records refer to that left the book
    rec,            \* the frame of the task recover_state, and its ghosts
    snapshot_data   \* the pickle a save_orderbook_snapshot in flight holds

\* the variables of the event loop and of the calls it runs as tasks
async_vars == <<tasks, running, book_lock>>

\* the variables of the broadcast worker and of the subscribers
broadcast_vars == <<subscribers, bw, trade_received, md_received, produced>>

\* the variables of the database, of the persistence worker and of recovery
durable_vars == <<db, queued, orders_batch, objects, rec, snapshot_data>>

vars == <<order_book, trades, order_queue, trade_queue, pending_trades,
          bbo_dirty, nextId, clock, last, tasks, running, book_lock,
          subscribers, bw, trade_received, md_received, produced,
          db, queued, orders_batch, objects, rec, snapshot_data>>

\* ------------------------------------------------------------ primitives
Min(a, b) == IF a <= b THEN a ELSE b

\* f without key k
DropKey(f, k) == [x \in (DOMAIN f) \ {k} |-> f[x]]

\* f with key k bound to v
PutKey(f, k, v) == [x \in (DOMAIN f) \cup {k} |-> IF x = k THEN v ELSE f[x]]

\* s without its i-th element (list.pop(i))
PopAt(s, i) == [j \in 1..(Len(s) - 1) |-> IF j < i THEN s[j] ELSE s[j + 1]]

\* mutant: the key is appended and the heap order is not restored
heappush_unordered(h, k) == Append(h, k)

\* heapq.heappush on a min-heap: the heap is kept as the ascending sequence of
\* its keys, whose head is the heap's element 0
RECURSIVE heappush(_, _)
heappush(h, k) ==
    IF h = <<>> THEN <<k>>
    ELSE IF k <= Head(h) THEN <<k>> \o h
    ELSE <<Head(h)>> \o heappush(Tail(h), k)

\* heapq.heappop: removes the smallest key
heappop(h) == Tail(h)

\* sum(o.remaining_quantity for o in ids)
RECURSIVE SumSeq(_)
SumSeq(s) == IF s = <<>> THEN 0 ELSE Head(s) + SumSeq(Tail(s))

\* ---------------------------------------------------------------- Decimal
\* the number of decimal digits of n > 0
RECURSIVE Digits(_)
Digits(n) == IF n < 10 THEN 1 ELSE 1 + Digits(n \div 10)

RECURSIVE Pow10(_)
Pow10(k) == IF k = 0 THEN 1 ELSE 10 * Pow10(k - 1)

\* n cut to a multiple of the unit u, ties to even (ROUND_HALF_EVEN)
RoundHalfEven(n, u) ==
    IF 2 * (n % u) > u \/ (2 * (n % u) = u /\ (n \div u) % 2 = 1)
    THEN ((n \div u) + 1) * u
    ELSE (n \div u) * u

\* Decimal.__mul__: the exact product if it has at most DecimalPrec
\* significant digits, else the product rounded to DecimalPrec digits
Decimal_mul(a, b) ==
    IF a * b = 0 \/ Digits(a * b) <= DecimalPrec THEN a * b
    ELSE RoundHalfEven(a * b, Pow10(Digits(a * b) - DecimalPrec))

\* ----------------------------------------------------------------- Order
remaining_quantity(o) == o.quantity - o.filled_quantity

NewOrder(id, side, type, price, qty, ts) ==
    [order_id |-> id, side |-> side, order_type |-> type, price |-> price,
     quantity |-> qty, filled_quantity |-> 0, status |-> PENDING,
     timestamp |-> ts]

\* ------------------------------------------------------------ PriceLevel
NewLevel(price) == [price |-> price, orders |-> <<>>, total_quantity |-> 0]

\* mutant: the new order goes to the head of the FIFO
Level_add_order_front(lvl, o) ==
    [lvl EXCEPT !.orders = <<o.order_id>> \o @,
                !.total_quantity = @ + remaining_quantity(o)]

Level_add_order(lvl, o) ==
    [lvl EXCEPT !.orders = Append(@, o.order_id),
                !.total_quantity = @ + remaining_quantity(o)]

\* index of the first order of the level with this id, 0 if none
IndexOf(ids, id) ==
    IF \E i \in 1..Len(ids) : ids[i] = id
    THEN CHOOSE i \in 1..Len(ids) :
             ids[i] = id /\ \A j \in 1..(i - 1) : ids[j] # id
    ELSE 0

\* returns [lvl, removed]; `store` gives the fields of the order objects
Level_remove_order(lvl, store, order_id) ==
    LET i == IndexOf(lvl.orders, order_id) IN
    IF i = 0 THEN [lvl |-> lvl, removed |-> FALSE]
    ELSE LET t == lvl.total_quantity - remaining_quantity(store[order_id]) IN
         [lvl |-> [lvl EXCEPT !.total_quantity = IF t < 0 THEN 0 ELSE t,
                              !.orders = PopAt(@, i)],
          removed |-> TRUE]

Level_update_quantity(lvl, store, order_id, fq) ==
    LET i == IndexOf(lvl.orders, order_id) IN
    IF fq <= 0 \/ i = 0 THEN lvl
    ELSE LET t == lvl.total_quantity - fq IN
         [lvl EXCEPT !.total_quantity = IF t < 0 THEN 0 ELSE t,
                     !.orders = IF remaining_quantity(store[order_id]) <= 0
                                THEN PopAt(@, i) ELSE @]

\* mutant: empty() without the defensive reconciliation
Level_reconciled_never(lvl, store) == lvl

\* what empty() leaves in total_quantity: unchanged on the quick path,
\* otherwise reconciled with the sum of the orders' remainders
Level_reconciled(lvl, store) ==
    IF lvl.total_quantity <= 0 THEN lvl
    ELSE [lvl EXCEPT !.total_quantity =
             SumSeq([i \in 1..Len(lvl.orders) |->
                        remaining_quantity(store[lvl.orders[i]])])]

\* returns [lvl, empty]
Level_empty(lvl, store) ==
    LET r == Level_reconciled(lvl, store) IN
    [lvl |-> r, empty |-> r.total_quantity <= 0]

\* --------------------------------------------------------- OrderBookSide
NewSide(is_bid) ==
    [is_bid |-> is_bid, price_levels |-> <<>>, price_heap |-> <<>>,
     price_set |-> {}]

heap_key(side, price) == IF side.is_bid THEN 0 - price ELSE price

heap_to_price(side, key) == IF side.is_bid THEN 0 - key ELSE key

\* mutant: stale heap entries are never popped
clean_heap_never(side, store) == side

RECURSIVE clean_heap(_, _)
clean_heap(side, store) ==
    IF side.price_heap = <<>> THEN side
    ELSE LET price == heap_to_price(side, Head(side.price_heap))
             has == price \in DOMAIN side.price_levels
             e == Level_empty(side.price_levels[price], store)
             seen == IF has
                     THEN [side EXCEPT !.price_levels[price] = e.lvl]
                     ELSE side
         IN IF has /\ ~e.empty THEN seen
            ELSE clean_heap([seen EXCEPT !.price_heap = heappop(@),
                                         !.price_set = @ \ {price}], store)

\* the price at the head of a cleaned heap, NoPrice (None) when it is empty
HeapTop(s) ==
    [side |-> s,
     price |-> IF s.price_heap = <<>> THEN NoPrice
               ELSE heap_to_price(s, Head(s.price_heap))]

\* returns [side, price]; price is NoPrice when the side is empty
Side_get_best_price(side, store) == HeapTop(clean_heap(side, store))

RECURSIVE ReconcileAll(_, _, _)
ReconcileAll(side, store, ps) ==
    IF ps = {} THEN side
    ELSE LET p == CHOOSE x \in ps : TRUE IN
         ReconcileAll([side EXCEPT !.price_levels[p] =
                          Level_reconciled(@, store)], store, ps \ {p})

prune_empty_levels(side, store) ==
    LET seen == ReconcileAll(side, store, DOMAIN side.price_levels)
        to_drop == {p \in DOMAIN seen.price_levels :
                       seen.price_levels[p].total_quantity <= 0}
    IN clean_heap([seen EXCEPT
                      !.price_levels = [p \in (DOMAIN @) \ to_drop |-> @[p]],
                      !.price_set = @ \ to_drop], store)

Side_add_order(side, o) ==
    LET price == o.price
        fresh == price \notin DOMAIN side.price_levels
        lvl == IF fresh THEN NewLevel(price) ELSE side.price_levels[price]
        push == fresh /\ price \notin side.price_set
    IN [side EXCEPT
           !.price_levels = PutKey(@, price, Level_add_order(lvl, o)),
           !.price_heap = IF push THEN heappush(@, heap_key(side, price)) ELSE @,
           !.price_set = IF push THEN @ \cup {price} ELSE @]

\* mutant: the level stays in the map when its last order is removed
Side_remove_order_keeps_level(side, store, order_id, price) ==
    IF price \notin DOMAIN side.price_levels
    THEN [side |-> side, removed |-> FALSE]
    ELSE LET r == Level_remove_order(side.price_levels[price], store, order_id)
         IN [side |-> [side EXCEPT !.price_levels[price] = r.lvl],
             removed |-> r.removed]

\* returns [side, removed]
Side_remove_order(side, store, order_id, price) ==
    IF price \notin DOMAIN side.price_levels
    THEN [side |-> side, removed |-> FALSE]
    ELSE LET r == Level_remove_order(side.price_levels[price], store, order_id)
             e == Level_empty(r.lvl, store)
         IN IF r.removed /\ e.empty
            THEN [side |-> clean_heap(
                              [side EXCEPT !.price_levels = DropKey(@, price),
                                           !.price_set = @ \ {price}], store),
                  removed |-> TRUE]
            ELSE [side |-> [side EXCEPT !.price_levels[price] =
                               IF r.removed THEN e.lvl ELSE r.lvl],
                  removed |-> r.removed]

\* ------------------------------------------------------------- OrderBook
NewBook == [bid_side |-> NewSide(TRUE), ask_side |-> NewSide(FALSE),
            orders |-> <<>>]

SideOf(side) == IF side = BUY THEN "bid_side" ELSE "ask_side"

Opposite(side) == IF side = BUY THEN "ask_side" ELSE "bid_side"

\* mutant: an order whose order_id is in the index is added again
Book_add_order_again(book, o) ==
    [book |-> [book EXCEPT
                  !.orders = PutKey(@, o.order_id, o),
                  ![SideOf(o.side)] = Side_add_order(@, o)],
     added |-> TRUE]

\* returns [book, added]
Book_add_order(book, o) ==
    IF o.order_id \in DOMAIN book.orders
    THEN [book |-> book, added |-> FALSE]
    ELSE [book |-> [book EXCEPT
                       !.orders = PutKey(@, o.order_id, o),
                       ![SideOf(o.side)] = Side_add_order(@, o)],
          added |-> TRUE]

\* returns [book, found]; the removed order gets status CANCELLED
Book_cancel_order(book, order_id) ==
    IF order_id \notin DOMAIN book.orders
    THEN [book |-> book, found |-> FALSE]
    ELSE LET o == book.orders[order_id]
             r == Side_remove_order(book[SideOf(o.side)], book.orders,
                                    order_id, o.price)
         IN [book |-> [book EXCEPT ![SideOf(o.side)] = r.side,
                                   !.orders = DropKey(@, order_id)],
             found |-> TRUE]

\* mutant: the filled order is taken from its level but stays in the index
Book_remove_filled_keeps_index(book, order_id) ==
    IF order_id \notin DOMAIN book.orders THEN book
    ELSE LET o == book.orders[order_id]
             r == Side_remove_order(book[SideOf(o.side)], book.orders,
                                    order_id, o.price)
         IN [book EXCEPT ![SideOf(o.side)] = r.side]

\* mutant: the filled order leaves the index and its level's queue, and the
\* emptied level stays in price_levels
Book_remove_filled_keeps_level(book, order_id) ==
    IF order_id \notin DOMAIN book.orders THEN book
    ELSE LET o == book.orders[order_id]
             r == Side_remove_order_keeps_level(book[SideOf(o.side)],
                                                book.orders, order_id, o.price)
         IN [book EXCEPT ![SideOf(o.side)] = r.side,
                         !.orders = DropKey(@, order_id)]

Book_remove_filled(book, order_id) ==
    IF order_id \notin DOMAIN book.orders THEN book
    ELSE LET o == book.orders[order_id]
             r == Side_remove_order(book[SideOf(o.side)], book.orders,
                                    order_id, o.price)
         IN [book EXCEPT ![SideOf(o.side)] = r.side,
                         !.orders = DropKey(@, order_id)]

\* returns [book, found, price, quantity]: (price, total_quantity) of the best
\* non-empty level of the side, found = FALSE for None
\* the part of _best_from_side after get_best_price returned g
BestLevel(book, sn, g) ==
    LET has == g.price # NoPrice /\ g.price \in DOMAIN g.side.price_levels
        e == Level_empty(g.side.price_levels[g.price], book.orders)
        s == IF has THEN [g.side EXCEPT !.price_levels[g.price] = e.lvl]
             ELSE g.side
    IN [book |-> [book EXCEPT ![sn] = s],
        found |-> has /\ ~e.empty,
        price |-> g.price,
        quantity |-> IF has THEN e.lvl.total_quantity ELSE 0]

best_from_side(book, sn) ==
    BestLevel(book, sn, Side_get_best_price(book[sn], book.orders))

get_best_bid(book) == best_from_side(book, "bid_side")

get_best_ask(book) == best_from_side(book, "ask_side")

\* -------------------------------------------------------- MatchingEngine
\* The state a matching routine works on: the book, the taker object, the
\* local `remaining`, the trade list built so far, every trade appended to
\* the trade ring, the order queue's length, _bbo_dirty, and the exception
\* that ended the routine ("none" if none).
Machine(book, order, queue, dirty) ==
    [book |-> book, order |-> order, remaining |-> order.quantity,
     trades |-> <<>>, made |-> <<>>, queue |-> queue, dirty |-> dirty,
     raised |-> "none"]

\* _order_queue.put_nowait: raises QueueFull when the queue is at capacity
put_nowait(m) ==
    IF m.queue >= QueueCap THEN [m EXCEPT !.raised = "QueueFull"]
    ELSE [m EXCEPT !.queue = @ + 1]

\* mutant: the trade is priced at the taker's own price
create_trade_taker_price(price, quantity, maker_order, taker_order) ==
    [price |-> taker_order.price, quantity |-> quantity,
     aggressor_side |-> taker_order.side,
     maker_order_id |-> maker_order.order_id,
     taker_order_id |-> taker_order.order_id,
     maker_fee |-> Decimal_mul(Decimal_mul(quantity, price), maker_fee),
     taker_fee |-> Decimal_mul(Decimal_mul(quantity, price), taker_fee)]

\* the Trade _create_trade_fast builds; the fees are
\* quantity * price * rate, two Decimal multiplications
create_trade_fast(price, quantity, maker_order, taker_order) ==
    [price |-> price, quantity |-> quantity,
     aggressor_side |-> taker_order.side,
     maker_order_id |-> maker_order.order_id,
     taker_order_id |-> taker_order.order_id,
     maker_fee |-> Decimal_mul(Decimal_mul(quantity, price), maker_fee),
     taker_fee |-> Decimal_mul(Decimal_mul(quantity, price), taker_fee)]

\* mutant: the fill ignores the maker's remainder
fill_quantity_taker(remaining, resting) == remaining

\* min(remaining, resting_order.remaining_quantity)
fill_quantity(remaining, resting) ==
    Min(remaining, remaining_quantity(resting))

\* One pass of the body of `for resting_order in list(level.orders)`: the
\* trade, both filled quantities, the maker's status, its removal from the
\* book or the level's aggregate, and (where the routine does it) the enqueue.
FillOne(m, opp, best_price, id, enqueue) ==
    LET resting == m.book.orders[id]
        fill_qty == fill_quantity(m.remaining, resting)
        trade == create_trade_fast(best_price, fill_qty, resting, m.order)
        full == remaining_quantity(resting) - fill_qty = 0
        resting1 == [resting EXCEPT
                        !.filled_quantity = @ + fill_qty,
                        !.status = IF full THEN FILLED ELSE PARTIALLY_FILLED]
        book1 == [m.book EXCEPT !.orders[id] = resting1]
        attached == best_price \in DOMAIN book1[opp].price_levels
        book2 == IF full THEN Book_remove_filled(book1, id)
                 ELSE IF attached
                 THEN [book1 EXCEPT ![opp].price_levels[best_price] =
                          Level_update_quantity(@, book1.orders, id, fill_qty)]
                 ELSE book1
        m1 == [m EXCEPT !.book = book2,
                        !.trades = Append(@, trade),
                        !.made = Append(@, trade),
                        !.remaining = @ - fill_qty,
                        !.order.filled_quantity = @ + fill_qty]
    IN IF enqueue THEN put_nowait(m1) ELSE m1

\* for resting_order in list(level.orders): ... over the snapshot `ids`
RECURSIVE FillLevel(_, _, _, _, _)
FillLevel(m, opp, best_price, ids, enqueue) ==
    IF ids = <<>> \/ m.raised # "none" \/ m.remaining <= 0 THEN m
    ELSE FillLevel(FillOne(m, opp, best_price, Head(ids), enqueue),
                   opp, best_price, Tail(ids), enqueue)

\* mutant: the price limit is never hit
Beyond_never(side, best_price, limit) == FALSE

\* best_price > order.price for a BUY taker, best_price < order.price for SELL
Beyond(side, best_price, limit) ==
    IF side = BUY THEN best_price > limit ELSE best_price < limit

RECURSIVE MatchLoop(_, _, _)

\* one pass of the while body, get_best_price having returned g: the breaks,
\* or the for loop over the level at the best price
MatchPass(m, opp, priced, g) ==
    IF g.price = NoPrice
       \/ (priced /\ Beyond(m.order.side, g.price, m.order.price))
       \/ g.price \notin DOMAIN g.side.price_levels
    THEN [m EXCEPT !.book[opp] = g.side]
    ELSE MatchLoop(FillLevel([m EXCEPT !.book[opp] = g.side], opp, g.price,
                             g.side.price_levels[g.price].orders, TRUE),
                   opp, priced)

\* the while loop of _match_market_order_sync (priced = FALSE) and of
\* _match_limit_order_sync (priced = TRUE)
MatchLoop(m, opp, priced) ==
    IF m.raised # "none" \/ m.remaining <= 0
       \/ DOMAIN m.book[opp].price_levels = {}
    THEN m
    ELSE MatchPass(m, opp, priced,
                   Side_get_best_price(m.book[opp], m.book.orders))

\* mutant: any fill makes the MARKET taker FILLED
StatusAfterMarket_any_fill(o) ==
    IF o.filled_quantity > 0 THEN FILLED ELSE PENDING

StatusAfterMarket(o) ==
    IF o.filled_quantity = o.quantity THEN FILLED
    ELSE IF o.filled_quantity > 0 THEN PARTIALLY_FILLED
    ELSE PENDING

\* the status assignment that ends _match_market_order_sync, not reached
\* when the loop raised
MarketFinish(m) ==
    IF m.raised # "none" THEN m
    ELSE [m EXCEPT !.order.status = StatusAfterMarket(m.order)]

match_market_order_sync(m0) ==
    MarketFinish(MatchLoop([m0 EXCEPT !.remaining = m0.order.quantity,
                                      !.trades = <<>>],
                           Opposite(m0.order.side), FALSE))

\* add_order of the remainder and the _bbo_dirty write that follows it
RestRemainder(m) ==
    LET o == [m.order EXCEPT !.status = IF m.trades # <<>>
                                        THEN PARTIALLY_FILLED ELSE PENDING]
    IN [m EXCEPT !.order = o,
                 !.book = Book_add_order(m.book, o).book,
                 !.dirty = TRUE]

\* mutant: the crossing test fails and the LIMIT order rests unmatched
LimitMatch_never(m0, b) == [m0 EXCEPT !.book = b.book]

\* `if best_ask and order.price >= best_ask[0]` (BUY) and its mirror (SELL),
\* b being what get_best_ask / get_best_bid returned, and the loop it guards
LimitMatch(m0, b) ==
    IF b.found /\ (IF m0.order.side = BUY THEN m0.order.price >= b.price
                   ELSE m0.order.price <= b.price)
    THEN MatchLoop([m0 EXCEPT !.book = b.book], Opposite(m0.order.side), TRUE)
    ELSE [m0 EXCEPT !.book = b.book]

\* the end of _match_limit_order_sync: rest the remainder or mark FILLED
LimitFinish(m) ==
    IF m.raised # "none" THEN m
    ELSE IF m.remaining > 0 THEN RestRemainder(m)
    ELSE [m EXCEPT !.order.status = FILLED]

match_limit_order_sync(m0) ==
    LimitFinish(LimitMatch(m0, IF m0.order.side = BUY
                               THEN get_best_ask(m0.book)
                               ELSE get_best_bid(m0.book)))

\* `if level.empty(): prune_empty_levels()` after the for loop: `level` is
\* the object bound before the loop; once remove_order has dropped it from
\* price_levels its aggregate has been reconciled to 0 and it is empty.
PruneAfterLevel(m, opp, best_price) ==
    LET side == m.book[opp]
        attached == best_price \in DOMAIN side.price_levels
        e == Level_empty(side.price_levels[best_price], m.book.orders)
        seen == IF attached
                THEN [side EXCEPT !.price_levels[best_price] = e.lvl]
                ELSE side
    IN IF m.raised # "none" THEN m
       ELSE IF (~attached) \/ e.empty
       THEN [m EXCEPT !.book[opp] = prune_empty_levels(seen, m.book.orders)]
       ELSE [m EXCEPT !.book[opp] = seen]

RECURSIVE ConstrainedLoop(_, _)

\* one pass of the while body, get_best_price having returned g; a level
\* that price_levels.get does not find is None, and level.orders raises
ConstrainedPass(m, opp, g) ==
    IF g.price = NoPrice \/ Beyond(m.order.side, g.price, m.order.price)
    THEN [m EXCEPT !.book[opp] = g.side]
    ELSE IF g.price \notin DOMAIN g.side.price_levels
    THEN [m EXCEPT !.book[opp] = g.side, !.raised = "AttributeError"]
    ELSE ConstrainedLoop(
             PruneAfterLevel(
                 FillLevel([m EXCEPT !.book[opp] = g.side], opp, g.price,
                           g.side.price_levels[g.price].orders, FALSE),
                 opp, g.price),
             opp)

\* the while loop of _match_limit_constrained_sync
ConstrainedLoop(m, opp) ==
    IF m.raised # "none" \/ m.remaining <= 0 THEN m
    ELSE ConstrainedPass(m, opp,
                         Side_get_best_price(m.book[opp], m.book.orders))

match_limit_constrained_sync(m0) ==
    ConstrainedLoop([m0 EXCEPT !.remaining = m0.order.quantity,
                               !.trades = <<>>],
                    Opposite(m0.order.side))

StatusAfterIOC(m) ==
    IF remaining_quantity(m.order) = 0 THEN FILLED
    ELSE IF m.trades # <<>> THEN PARTIALLY_FILLED
    ELSE CANCELLED

\* the status assignment that ends _match_ioc_order_sync, not reached when
\* the matching raised
IOCFinish(m) ==
    IF m.raised # "none" THEN m
    ELSE [m EXCEPT !.order.status = StatusAfterIOC(m)]

\* mutant: a priced IOC is matched as a LIMIT order, which rests its remainder
match_ioc_as_limit(m0) ==
    IOCFinish(IF m0.order.price = NoPrice THEN match_market_order_sync(m0)
              ELSE match_limit_order_sync(m0))

match_ioc_order_sync(m0) ==
    IOCFinish(IF m0.order.price = NoPrice THEN match_market_order_sync(m0)
              ELSE match_limit_constrained_sync(m0))

\* the prices of a side in the order _check_can_fill_completely visits them
BestOf(ps, side) ==
    IF side = BUY THEN CHOOSE p \in ps : \A q \in ps : p <= q
    ELSE CHOOSE p \in ps : \A q \in ps : p >= q

RECURSIVE CanFill(_, _, _, _)
CanFill(levels, ps, order, total) ==
    IF ps = {} THEN FALSE
    ELSE LET price == BestOf(ps, order.side)
             t == total + levels[price].total_quantity
         IN IF order.price # NoPrice
               /\ Beyond(order.side, price, order.price)
               /\ order.order_type # MARKET
            THEN FALSE
            ELSE IF t >= order.quantity THEN TRUE
            ELSE CanFill(levels, ps \ {price}, order, t)

\* mutant: the pre-check only asks for some liquidity
check_can_fill_any(book, order) ==
    DOMAIN book[Opposite(order.side)].price_levels # {}

check_can_fill_completely(book, order) ==
    LET levels == book[Opposite(order.side)].price_levels
    IN CanFill(levels, DOMAIN levels, order, 0)

\* step 3 of _match_fok_order_sync: cancel and return [] if a remainder is
\* left, else FILLED; not reached when the matching raised
FOKFinish(m) ==
    IF m.raised # "none" THEN m
    ELSE IF remaining_quantity(m.order) > 0
    THEN [m EXCEPT !.order.status = CANCELLED, !.trades = <<>>]
    ELSE [m EXCEPT !.order.status = FILLED]

match_fok_order_sync(m0) ==
    IF ~check_can_fill_completely(m0.book, m0.order)
    THEN [m0 EXCEPT !.order.status = CANCELLED, !.trades = <<>>]
    ELSE FOKFinish(IF m0.order.price # NoPrice
                   THEN match_limit_constrained_sync(m0)
                   ELSE match_market_order_sync(m0))

\* mutant: the quantity is not validated
validate_order_any_quantity(order) ==
    IF order.order_type = LIMIT /\ order.price = NoPrice
    THEN "Price required for limit orders"
    ELSE IF order.price # NoPrice /\ order.price <= 0 THEN "Invalid price"
    ELSE "Valid"

\* "Valid" or the reason of the rejection
validate_order(order) ==
    IF order.quantity <= 0 THEN "Invalid quantity"
    ELSE IF order.order_type = LIMIT /\ order.price = NoPrice
    THEN "Price required for limit orders"
    ELSE IF order.price # NoPrice /\ order.price <= 0 THEN "Invalid price"
    ELSE "Valid"

\* what a call hands back to its caller: `order` is the caller's order object
\* after submit, or the order cancel returns (NullOrder for None); `raised`
\* names the exception the call ended with instead of returning; `made` is
\* the trades the call built with _create_trade_fast (and appended to the
\* engine's trade ring), returned or not
NullOrder == NewOrder(0, BUY, LIMIT, NoPrice, 0, 0)

Result(op, ok, msg, returned, order, raised, made) ==
    [op |-> op, ok |-> ok, msg |-> msg, trades |-> returned, order |-> order,
     raised |-> raised, made |-> made]

\* the dispatch on order_type under the book lock
Dispatch(m) ==
    CASE m.order.order_type = MARKET -> match_market_order_sync(m)
      [] m.order.order_type = LIMIT -> match_limit_order_sync(m)
      [] m.order.order_type = IOC -> match_ioc_order_sync(m)
      [] m.order.order_type = FOK -> match_fok_order_sync(m)
      [] OTHER -> m

Supported(type) == type \in {MARKET, LIMIT, IOC, FOK}

\* the post-processing enqueue of the taker: QueueFull is caught and the
\* record dropped
EnqueueTaker(queue) == IF queue >= QueueCap THEN queue ELSE queue + 1

OrderTypes == {MARKET, LIMIT, IOC, FOK, STOP_LOSS}

\* deque.append on the trade ring: at maxlen the oldest trade is dropped
RECURSIVE RingExtend(_, _)
RingExtend(ring, ts) ==
    IF ts = <<>> THEN ring
    ELSE RingExtend(IF Len(ring) >= RingCap THEN Append(Tail(ring), Head(ts))
                    ELSE Append(ring, Head(ts)),
                    Tail(ts))

\* the loop `for trade in trades` of the post-processing: each trade is put
\* on _trade_queue and then appended to _pending_trades; QueueFull ends
\* the loop (it is caught around the whole block)
RECURSIVE EnqueueTrades(_, _)
EnqueueTrades(q, ts) ==
    IF ts = <<>> \/ q.trade_queue >= QueueCap THEN q
    ELSE EnqueueTrades([trade_queue |-> q.trade_queue + 1,
                        pending_trades |-> Append(q.pending_trades, Head(ts))],
                       Tail(ts))

\* the trade part of the post-processing: not reached when the put of the
\* taker on _order_queue raised QueueFull
PostTrades(queue, ts) ==
    IF queue >= QueueCap
    THEN [trade_queue |-> trade_queue, pending_trades |-> pending_trades]
    ELSE EnqueueTrades([trade_queue |-> trade_queue,
                        pending_trades |-> pending_trades], ts)

\* ----------------------------------------------------- calls run as tasks
Slots == 1..MaxTasks

\* the engine state a call reads and writes, with what it hands its caller
EngineState(book, ring, oq, tq, pending, dirty, result) ==
    [order_book |-> book, trades |-> ring, order_queue |-> oq,
     trade_queue |-> tq, pending_trades |-> pending, bbo_dirty |-> dirty,
     last |-> result]

Engine == EngineState(order_book, trades, order_queue, trade_queue,
                      pending_trades, bbo_dirty, last)

NoOutcome == EngineState(NewBook, <<>>, 0, 0, <<>>, FALSE,
                         Result("none", FALSE, "", <<>>, NullOrder, "none",
                                <<>>))

\* the frame of a coroutine: where it stands, the call it runs, its locals
\* `order` and `trades`, and the outcome the call would have had if it had
\* run alone from the state in which it took the book lock
Frame(pc, op, order_id, order) ==
    [pc |-> pc, op |-> op, order_id |-> order_id, order |-> order,
     trades |-> <<>>, made |-> <<>>, expected |-> NoOutcome]

FreeFrame == Frame("free", "none", 0, NullOrder)

\* ------------------------------------------------- subscribers, payloads
\* the callbacks, and the lists subscribe_trades / subscribe_market_data
\* built before the engine started
Callbacks == 1..MaxSubs

Subscribed == [i \in 1..MaxSubs |-> i]

\* (price, quantity) of a best level as get_bbo reports it, <<>> for None
Quote(b) == IF b.found THEN <<b.price, b.quantity>> ELSE <<>>

\* get_bbo after get_best_bid returned b and get_best_ask returned a
BBOBoth(b, a) ==
    [book |-> a.book,
     bbo |-> [best_bid |-> Quote(b), best_ask |-> Quote(a),
              spread |-> IF b.found /\ a.found THEN <<a.price - b.price>>
                         ELSE <<>>]]

BBOAfterBid(b) == BBOBoth(b, get_best_ask(b.book))

\* returns [book, bbo]
get_bbo(book) == BBOAfterBid(get_best_bid(book))

\* one side of get_depth: the levels from the best price on, skipping the
\* empty ones, at most depth_levels of them
RECURSIVE DepthLevels(_, _, _, _)
DepthLevels(side, store, ps, out) ==
    IF ps = {} \/ Len(out) >= depth_levels THEN out
    ELSE LET p == IF side.is_bid THEN CHOOSE x \in ps : \A y \in ps : x >= y
                  ELSE CHOOSE x \in ps : \A y \in ps : x <= y
             e == Level_empty(side.price_levels[p], store)
         IN DepthLevels(side, store, ps \ {p},
                        IF e.empty THEN out
                        ELSE Append(out, <<p, e.lvl.total_quantity>>))

\* returns [book, depth]; empty() reconciles the aggregate of every level it
\* visits
get_depth(book) ==
    [book |-> [book EXCEPT
                  !.bid_side = ReconcileAll(@, book.orders,
                                            DOMAIN @.price_levels),
                  !.ask_side = ReconcileAll(@, book.orders,
                                            DOMAIN @.price_levels)],
     depth |-> [bids |-> DepthLevels(book.bid_side, book.orders,
                                     DOMAIN book.bid_side.price_levels, <<>>),
                asks |-> DepthLevels(book.ask_side, book.orders,
                                     DOMAIN book.ask_side.price_levels,
                                     <<>>)]]

\* the payload _send_market_data builds (its wall-clock timestamp left out)
PayloadOf(q, d) ==
    [book |-> d.book,
     payload |-> [type |-> "market_data", bbo |-> q.bbo, depth |-> d.depth]]

PayloadAfterBBO(q) == PayloadOf(q, get_depth(q.book))

\* returns [book, payload]
MarketData(book) == PayloadAfterBBO(get_bbo(book))

\* no payload yet
NoPayload == [type |-> "none", bbo |-> <<>>, depth |-> <<>>]

\* the frame of _broadcast_worker: pc is "sleep" (in asyncio.sleep),
\* "in_trade" (in the trade callback s of trade i of the batch) or "in_md"
\* (in the market-data callback s); batch is trades_to_send, payload the
\* last market-data payload built, failed whether the callback before the
\* current one raised
IdleWorker ==
    [pc |-> "sleep", batch |-> <<>>, i |-> 0, s |-> 0, payload |-> NoPayload,
     failed |-> FALSE]

\* ------------------------------------------- the database and recovery
\* the engine processes started on one database file, the first included
MaxLives == 2

\* the significant decimal digits a double keeps of every decimal
FloatDigits == 15

\* float(d) of a Decimal: d itself when a double holds it, else d rounded
float(d) ==
    IF d <= 0 \/ Digits(d) <= FloatDigits THEN d
    ELSE RoundHalfEven(d, Pow10(Digits(d) - FloatDigits))

\* Decimal(str(x)) of a double read from a REAL column: str() is the shortest
\* decimal that reads back to x and Decimal() of a string is exact
Decimal_str(x) == x

\* _serialize_order: the row INSERT OR REPLACE writes (symbol and user_id,
\* which are the same in every row, are left out); a price of None is NULL
serialize_order(o) ==
    [order_id |-> o.order_id, side |-> o.side, order_type |-> o.order_type,
     price |-> IF o.price = NoPrice THEN NoPrice ELSE float(o.price),
     quantity |-> float(o.quantity),
     filled_quantity |-> float(o.filled_quantity),
     status |-> o.status, timestamp |-> o.timestamp]

\* the Order _replay_orders rebuilds from a row; a price that is NULL or 0.0
\* is falsy and becomes None
RowOrder(row) ==
    [order_id |-> row.order_id, side |-> row.side,
     order_type |-> row.order_type,
     price |-> IF row.price = 0 THEN NoPrice ELSE Decimal_str(row.price),
     quantity |-> Decimal_str(row.quantity),
     filled_quantity |-> Decimal_str(row.filled_quantity),
     status |-> row.status, timestamp |-> row.timestamp]

\* pickle.dumps(order_book): the attributes of the object, in order
pickle_dumps(book) == <<book.bid_side, book.ask_side, book.orders>>

\* pickle.loads: a new OrderBook with those attributes
pickle_loads(data) ==
    [bid_side |-> data[1], ask_side |-> data[2], orders |-> data[3]]

\* no row in orderbook_snapshots: fetchone() is None and so is snap_ts
NoSnapshot == [snapshot_data |-> <<>>, timestamp |-> 0]

\* the database file after _initialize_database: the table orders by
\* order_id, and the latest row of orderbook_snapshots (the only one read)
EmptyDb == [orders |-> <<>>, snapshot |-> NoSnapshot]

\* mutant: the replay takes the rows older than the snapshot too
Newer_all(row, snap_ts) == TRUE

\* "AND timestamp > ?", added to the query when there is a snapshot
Newer(row, snap_ts) == snap_ts = NoSnapshot.timestamp \/ row.timestamp > snap_ts

\* the WHERE clause of _replay_orders
Selected(row, snap_ts) ==
    /\ row.status \in {PENDING, PARTIALLY_FILLED}
    /\ row.order_type = LIMIT
    /\ row.price # NoPrice
    /\ Newer(row, snap_ts)

\* ORDER BY timestamp ASC
RECURSIVE OrderByTimestamp(_)
OrderByTimestamp(rows) ==
    IF rows = {} THEN <<>>
    ELSE LET first == CHOOSE r \in rows :
                          \A q \in rows : r.timestamp <= q.timestamp
         IN <<first>> \o OrderByTimestamp(rows \ {first})

\* the result of the query of _replay_orders
replay_query(orders, snap_ts) ==
    OrderByTimestamp({orders[id] : id \in {x \in DOMAIN orders :
                                              Selected(orders[x], snap_ts)}})

\* the body of the loop of _replay_orders for one row
ReplayRow(book, row) ==
    IF row.order_id \in DOMAIN book.orders THEN book
    ELSE IF RowOrder(row).price = NoPrice
            \/ remaining_quantity(RowOrder(row)) <= 0 THEN book
    ELSE Book_add_order(book, RowOrder(row)).book

\* the loop over the first n rows the cursor hands over without a break
RECURSIVE ReplayRows(_, _, _)
ReplayRows(book, rows, n) ==
    IF n = 0 THEN book
    ELSE ReplayRows(ReplayRow(book, Head(rows)), Tail(rows), n - 1)

\* the frame of recover_state: pc, snap_ts and the rows not yet replayed;
\* and what the claims about recovery need to remember: the engine process
\* it runs in (life), the book the previous process ended with (before),
\* whether the snapshot it loads was saved after every call of that process
\* (fresh), whether this process saved the latest snapshot and has not
\* changed its book since (clean) and whether no call ran in this process
\* (quiet)
RecFrame(pc, life, snap_ts, rows, before, fresh, clean, quiet) ==
    [pc |-> pc, life |-> life, snap_ts |-> snap_ts, rows |-> rows,
     before |-> before, fresh |-> fresh, clean |-> clean, quiet |-> quiet]

\* the first process, on a new database file: recovery found nothing
FirstLife ==
    RecFrame("done", 1, NoSnapshot.timestamp, <<>>, NewBook, FALSE, FALSE,
             TRUE)

\* --------------------------------------------------------------- actions
Init ==
    /\ order_book = NewBook
    /\ trades = <<>>
    /\ order_queue = 0
    /\ trade_queue = 0
    /\ pending_trades = <<>>
    /\ bbo_dirty = FALSE
    /\ nextId = 1
    /\ clock = 1
    /\ last = Result("none", FALSE, "", <<>>, NullOrder, "none", <<>>)
    /\ tasks = [t \in Slots |-> FreeFrame]
    /\ running = 0
    /\ book_lock = [locked |-> FALSE, waiters |-> <<>>]
    /\ subscribers = [trade |-> Subscribed, market_data |-> Subscribed]
    /\ bw = IdleWorker
    /\ trade_received = [c \in Callbacks |-> <<>>]
    /\ md_received = [c \in Callbacks |-> NoPayload]
    /\ produced = <<>>
    /\ db = EmptyDb
    /\ queued = <<>>
    /\ orders_batch = <<>>
    /\ objects = <<>>
    /\ rec = FirstLife
    /\ snapshot_data = <<>>

\* submit_order after the matching routine left m: the exception goes to the
\* caller, or the BBO flag is set, the taker enqueued and the trades returned
AfterMatch(m) ==
    IF m.raised # "none"
    THEN /\ last' = Result("submit", FALSE, "", <<>>, m.order, m.raised, m.made)
         /\ order_book' = m.book
         /\ trades' = RingExtend(trades, m.made)
         /\ order_queue' = m.queue
         /\ bbo_dirty' = m.dirty
         /\ UNCHANGED <<trade_queue, pending_trades>>
    ELSE /\ last' = Result("submit", TRUE, "Order processed successfully",
                           m.trades, m.order, "none", m.made)
         /\ order_book' = m.book
         /\ trades' = RingExtend(trades, m.made)
         /\ order_queue' = EnqueueTaker(m.queue)
         /\ trade_queue' = PostTrades(m.queue, m.trades).trade_queue
         /\ pending_trades' = PostTrades(m.queue, m.trades).pending_trades
         /\ bbo_dirty' = (m.dirty \/ m.trades # <<>>)

\* submit_order that returns before any matching
Refused(order, msg) ==
    /\ last' = Result("submit", FALSE, msg, <<>>, order, "none", <<>>)
    /\ UNCHANGED <<order_book, trades, order_queue, trade_queue,
                   pending_trades, bbo_dirty>>

\* submit_order of the order object `order`
SubmitObject(order, msg) ==
    IF msg # "Valid" THEN Refused(order, msg)
    ELSE IF ~Supported(order.order_type)
    THEN Refused(order, "Unsupported order type")
    ELSE AfterMatch(Dispatch(Machine(order_book, order, order_queue,
                                     bbo_dirty)))

\* submit_order of a newly created order object
SubmitOrder(id, side, type, price, qty, ts) ==
    /\ nextId' = nextId + 1
    /\ clock' = ts
    /\ SubmitObject(NewOrder(id, side, type, price, qty, ts),
                    validate_order(NewOrder(id, side, type, price, qty, ts)))
    /\ UNCHANGED async_vars
    /\ UNCHANGED broadcast_vars
    /\ UNCHANGED durable_vars

\* an order whose order_id is the default uuid4: no other order has it
Submit ==
    /\ nextId <= MaxOrders
    /\ \E side \in {BUY, SELL}, type \in OrderTypes,
          price \in Prices \cup {NoPrice, BadPrice}, qty \in 0..MaxQty :
          SubmitOrder(nextId, side, type, price, qty, clock + 1)

\* an order created with the order_id of an order that rests in the book
SubmitDuplicate ==
    /\ nextId <= MaxOrders
    /\ \E id \in DOMAIN order_book.orders,
          side \in {BUY, SELL}, type \in OrderTypes,
          price \in Prices \cup {NoPrice, BadPrice}, qty \in 0..MaxQty :
          SubmitOrder(id, side, type, price, qty, clock + 1)

\* cancel_order, as far as the engine's own state goes
cancel_order(order_id) ==
    LET c == Book_cancel_order(order_book, order_id)
        order == [order_book.orders[order_id] EXCEPT !.status = CANCELLED]
    IN /\ order_book' = c.book
       /\ IF ~c.found
          THEN /\ last' = Result("cancel", FALSE, "", <<>>, NullOrder, "none",
                                 <<>>)
               /\ UNCHANGED <<order_queue, bbo_dirty>>
          ELSE /\ bbo_dirty' = TRUE
               /\ IF order_queue >= QueueCap
                  THEN /\ last' = Result("cancel", FALSE, "", <<>>, order,
                                         "QueueFull", <<>>)
                       /\ UNCHANGED order_queue
                  ELSE /\ last' = Result("cancel", TRUE, "", <<>>, order, "none",
                                         <<>>)
                       /\ order_queue' = order_queue + 1
       /\ UNCHANGED <<trades, trade_queue, pending_trades, nextId, clock>>

\* cancel_order
CancelOrder(order_id) ==
    /\ cancel_order(order_id)
    /\ UNCHANGED async_vars
    /\ UNCHANGED broadcast_vars
    /\ UNCHANGED durable_vars

Cancel == \E order_id \in 1..MaxOrders : CancelOrder(order_id)

\* one collecting pass of _persistence_worker over _order_queue
PersistenceCollect ==
    /\ order_queue > 0 \/ trade_queue > 0
    /\ order_queue' = order_queue - Min(order_queue, batch_size)
    /\ trade_queue' = trade_queue - Min(trade_queue, batch_size)
    /\ UNCHANGED <<order_book, trades, pending_trades, bbo_dirty, nextId,
                   clock, last>>
    /\ UNCHANGED async_vars
    /\ UNCHANGED broadcast_vars
    /\ UNCHANGED durable_vars

Next == Submit \/ SubmitDuplicate \/ Cancel \/ PersistenceCollect

Spec == Init /\ [][Next]_vars

\* _create_trade_fast applied on its own, on a newly constructed engine, to
\* a price and a quantity drawn from a wider range than the book's
CreateTrade ==
    /\ trades = <<>>
    /\ \E price \in 1..MaxFeePrice, quantity \in 1..MaxFeeQty :
           /\ trades' = RingExtend(trades,
                  <<create_trade_fast(price, quantity,
                        NewOrder(1, SELL, LIMIT, price, quantity, 1),
                        NewOrder(2, BUY, MARKET, NoPrice, quantity, 2))>>)
    /\ UNCHANGED <<order_book, order_queue, trade_queue, pending_trades,
                   bbo_dirty, nextId, clock, last>>
    /\ UNCHANGED async_vars
    /\ UNCHANGED broadcast_vars
    /\ UNCHANGED durable_vars

NextFee == CreateTrade

SpecFee == Init /\ [][NextFee]_vars

\* ------------------------------------------- one call, run without a break
\* submit_order from the matching routine's m to the return, on the engine
\* state e
SubmitAfterMatch(e, m) ==
    IF m.raised # "none"
    THEN EngineState(m.book, RingExtend(e.trades, m.made), m.queue,
                     e.trade_queue, e.pending_trades, m.dirty,
                     Result("submit", FALSE, "", <<>>, m.order, m.raised,
                            m.made))
    ELSE LET q == IF m.queue >= QueueCap
                  THEN [trade_queue |-> e.trade_queue,
                        pending_trades |-> e.pending_trades]
                  ELSE EnqueueTrades([trade_queue |-> e.trade_queue,
                                      pending_trades |-> e.pending_trades],
                                     m.trades)
         IN EngineState(m.book, RingExtend(e.trades, m.made),
                        EnqueueTaker(m.queue), q.trade_queue,
                        q.pending_trades, m.dirty \/ m.trades # <<>>,
                        Result("submit", TRUE, "Order processed successfully",
                               m.trades, m.order, "none", m.made))

\* submit_order(order) on the engine state e
SubmitOutcome(e, order) ==
    IF validate_order(order) # "Valid"
    THEN [e EXCEPT !.last = Result("submit", FALSE, validate_order(order),
                                   <<>>, order, "none", <<>>)]
    ELSE IF ~Supported(order.order_type)
    THEN [e EXCEPT !.last = Result("submit", FALSE, "Unsupported order type",
                                   <<>>, order, "none", <<>>)]
    ELSE SubmitAfterMatch(e, Dispatch(Machine(e.order_book, order,
                                              e.order_queue, e.bbo_dirty)))

\* cancel_order from the book's answer c to the return
CancelAfterBook(e, c, order) ==
    IF ~c.found
    THEN [e EXCEPT !.order_book = c.book,
                   !.last = Result("cancel", FALSE, "", <<>>, NullOrder,
                                   "none", <<>>)]
    ELSE IF e.order_queue >= QueueCap
    THEN [e EXCEPT !.order_book = c.book, !.bbo_dirty = TRUE,
                   !.last = Result("cancel", FALSE, "", <<>>, order,
                                   "QueueFull", <<>>)]
    ELSE [e EXCEPT !.order_book = c.book, !.bbo_dirty = TRUE,
                   !.order_queue = @ + 1,
                   !.last = Result("cancel", TRUE, "", <<>>, order, "none",
                                   <<>>)]

\* cancel_order(order_id) on the engine state e
CancelOutcome(e, order_id) ==
    CancelAfterBook(e, Book_cancel_order(e.order_book, order_id),
                    IF order_id \in DOMAIN e.order_book.orders
                    THEN [e.order_book.orders[order_id]
                              EXCEPT !.status = CANCELLED]
                    ELSE NullOrder)

CallOutcome(e, f) ==
    IF f.op = "submit" THEN SubmitOutcome(e, f.order)
    ELSE CancelOutcome(e, f.order_id)

\* ------------------------------------------------ the event loop and tasks
\* mutant: leaving the lock hands control back to the event loop
aexit_yields == TRUE

\* whether Lock.__aexit__ suspends the coroutine: it calls release(), which
\* has no await
aexit_suspends == FALSE

\* the orders the callers of the tasks create (a narrower range than
\* Submit's, the interleavings of the tasks taking its place): LIMIT and
\* MARKET orders with one price or none, and one order of a type that
\* submit_order does not support
AsyncOrders ==
    [side : {BUY, SELL}, order_type : {LIMIT, MARKET},
     price : {NoPrice, MaxPrice}, quantity : 1..MaxQty]
    \cup {[side |-> BUY, order_type |-> STOP_LOSS, price |-> MaxPrice,
           quantity |-> MaxQty]}

\* the lowest free slot, 0 if none
FreeSlot ==
    IF \E t \in Slots : tasks[t].pc = "free"
    THEN CHOOSE t \in Slots : /\ tasks[t].pc = "free"
                              /\ \A u \in Slots :
                                     tasks[u].pc = "free" => t <= u
    ELSE 0

\* a caller creates an order and a task that runs submit_order on it
SpawnSubmit ==
    /\ running = 0
    /\ nextId <= MaxOrders
    /\ FreeSlot # 0
    /\ \E o \in AsyncOrders :
          tasks' = [tasks EXCEPT ![FreeSlot] =
                       Frame("ready", "submit", nextId,
                             NewOrder(nextId, o.side, o.order_type, o.price,
                                      o.quantity, clock + 1))]
    /\ nextId' = nextId + 1
    /\ clock' = clock + 1
    /\ UNCHANGED <<order_book, trades, order_queue, trade_queue,
                   pending_trades, bbo_dirty, last, running, book_lock>>
    /\ UNCHANGED broadcast_vars
    /\ UNCHANGED durable_vars

\* a caller creates a task that runs cancel_order
SpawnCancel ==
    /\ running = 0
    /\ FreeSlot # 0
    /\ \E order_id \in 1..MaxOrders :
          tasks' = [tasks EXCEPT ![FreeSlot] =
                       Frame("ready", "cancel", order_id, NullOrder)]
    /\ UNCHANGED <<order_book, trades, order_queue, trade_queue,
                   pending_trades, bbo_dirty, last, nextId, clock, running,
                   book_lock>>
    /\ UNCHANGED broadcast_vars
    /\ UNCHANGED durable_vars

\* the event loop, idle, runs one of the tasks that are ready
Resume(t) ==
    /\ running = 0
    /\ tasks[t].pc \in {"ready", "woken", "post"}
    /\ running' = t
    /\ UNCHANGED <<order_book, trades, order_queue, trade_queue,
                   pending_trades, bbo_dirty, last, nextId, clock, tasks,
                   book_lock>>
    /\ UNCHANGED broadcast_vars
    /\ UNCHANGED durable_vars

\* the task t ends: the call returns or raises, result being what the caller
\* gets
Return(t, result) ==
    /\ last' = result
    /\ running' = 0

\* Lock.release and _wake_up_first: the first waiter's future is set
Release(ts) ==
    IF book_lock.waiters = <<>> THEN ts
    ELSE [ts EXCEPT ![Head(book_lock.waiters)].pc = "woken"]

\* submit_order up to the lock: _validate_order and the early return
TaskValidate(t) ==
    /\ running = t
    /\ tasks[t].pc = "ready"
    /\ tasks[t].op = "submit"
    /\ IF validate_order(tasks[t].order) # "Valid"
       THEN /\ Return(t, Result("submit", FALSE,
                                validate_order(tasks[t].order), <<>>,
                                tasks[t].order, "none", <<>>))
            /\ tasks' = [tasks EXCEPT ![t] = FreeFrame]
       ELSE /\ tasks' = [tasks EXCEPT ![t].pc = "acquire"]
            /\ UNCHANGED <<last, running>>
    /\ UNCHANGED <<order_book, trades, order_queue, trade_queue,
                   pending_trades, bbo_dirty, nextId, clock, book_lock>>
    /\ UNCHANGED broadcast_vars
    /\ UNCHANGED durable_vars

\* `async with self._book_lock`, Lock.acquire: the lock is taken at once if
\* it is free and nobody waits, else the coroutine waits on a future and is
\* suspended; a woken waiter leaves the queue and takes the lock
TaskAcquire(t) ==
    /\ running = t
    /\ \/ tasks[t].pc \in {"acquire", "woken"}
       \/ tasks[t].pc = "ready" /\ tasks[t].op = "cancel"
    /\ IF tasks[t].pc = "woken"
       THEN /\ book_lock' = [locked |-> TRUE,
                             waiters |-> SelectSeq(book_lock.waiters,
                                                   LAMBDA u : u # t)]
            /\ tasks' = [tasks EXCEPT ![t].pc = "critical",
                             ![t].expected = CallOutcome(Engine, tasks[t])]
            /\ UNCHANGED running
       ELSE IF ~book_lock.locked /\ book_lock.waiters = <<>>
       THEN /\ book_lock' = [book_lock EXCEPT !.locked = TRUE]
            /\ tasks' = [tasks EXCEPT ![t].pc = "critical",
                             ![t].expected = CallOutcome(Engine, tasks[t])]
            /\ UNCHANGED running
       ELSE /\ book_lock' = [book_lock EXCEPT
                                 !.waiters = Append(@, t)]
            /\ tasks' = [tasks EXCEPT ![t].pc = "waiting"]
            /\ running' = 0
    /\ UNCHANGED <<order_book, trades, order_queue, trade_queue,
                   pending_trades, bbo_dirty, last, nextId, clock>>
    /\ UNCHANGED broadcast_vars
    /\ UNCHANGED durable_vars

\* the matching of submit_order under the lock, m being what the routine
\* left: an exception leaves the `async with`, which releases the lock, and
\* ends the call
MatchOfTask(t, m) ==
    /\ order_book' = m.book
    /\ trades' = RingExtend(trades, m.made)
    /\ order_queue' = m.queue
    /\ bbo_dirty' = m.dirty
    /\ IF m.raised # "none"
       THEN /\ Return(t, Result("submit", FALSE, "", <<>>, m.order, m.raised,
                                m.made))
            /\ tasks' = [Release(tasks) EXCEPT ![t] = FreeFrame]
            /\ book_lock' = [book_lock EXCEPT !.locked = FALSE]
       ELSE /\ tasks' = [tasks EXCEPT ![t].pc = "matched",
                                      ![t].order = m.order,
                                      ![t].trades = m.trades,
                                      ![t].made = m.made]
            /\ UNCHANGED <<last, running, book_lock>>

\* the first statement under the lock: the dispatch on order_type with its
\* `return` for an unsupported type, or order_book.cancel_order
TaskMatch(t) ==
    /\ running = t
    /\ tasks[t].pc = "critical"
    /\ IF tasks[t].op = "cancel"
       THEN /\ order_book' =
                   Book_cancel_order(order_book, tasks[t].order_id).book
            /\ tasks' = [tasks EXCEPT ![t].pc = "matched",
                             ![t].order =
                                 IF tasks[t].order_id
                                        \in DOMAIN order_book.orders
                                 THEN order_book.orders[tasks[t].order_id]
                                 ELSE NullOrder]
            /\ UNCHANGED <<trades, order_queue, bbo_dirty, last, running,
                           book_lock>>
       ELSE IF ~Supported(tasks[t].order.order_type)
       THEN /\ Return(t, Result("submit", FALSE, "Unsupported order type",
                                <<>>, tasks[t].order, "none", <<>>))
            /\ tasks' = [Release(tasks) EXCEPT ![t] = FreeFrame]
            /\ book_lock' = [book_lock EXCEPT !.locked = FALSE]
            /\ UNCHANGED <<order_book, trades, order_queue, bbo_dirty>>
       ELSE MatchOfTask(t, Dispatch(Machine(order_book, tasks[t].order,
                                            order_queue, bbo_dirty)))
    /\ UNCHANGED <<trade_queue, pending_trades, nextId, clock>>
    /\ UNCHANGED broadcast_vars
    /\ UNCHANGED durable_vars

\* the rest of the block under the lock and Lock.__aexit__: the BBO flag is
\* set if there are trades (submit) or an order was cancelled (cancel, which
\* also sets its status), and the lock is released
TaskExit(t) ==
    /\ running = t
    /\ tasks[t].pc = "matched"
    /\ bbo_dirty' = (bbo_dirty \/ IF tasks[t].op = "cancel"
                                  THEN tasks[t].order.order_id # 0
                                  ELSE tasks[t].trades # <<>>)
    /\ tasks' = [Release(tasks) EXCEPT
                     ![t].pc = "post",
                     ![t].order = IF tasks[t].op = "cancel" /\ @.order_id # 0
                                  THEN [@ EXCEPT !.status = CANCELLED]
                                  ELSE @]
    /\ book_lock' = [book_lock EXCEPT !.locked = FALSE]
    /\ running' = IF aexit_suspends THEN 0 ELSE t
    /\ UNCHANGED <<order_book, trades, order_queue, trade_queue,
                   pending_trades, last, nextId, clock>>
    /\ UNCHANGED broadcast_vars
    /\ UNCHANGED durable_vars

\* the code after the lock: submit_order queues the taker and the trades
\* (QueueFull caught) and returns; cancel_order queues the cancelled order
\* (QueueFull not caught) and returns
TaskPost(t) ==
    /\ running = t
    /\ tasks[t].pc = "post"
    /\ IF tasks[t].op = "submit"
       THEN /\ order_queue' = EnqueueTaker(order_queue)
            /\ trade_queue' = PostTrades(order_queue,
                                         tasks[t].trades).trade_queue
            /\ pending_trades' = PostTrades(order_queue,
                                            tasks[t].trades).pending_trades
            /\ Return(t, Result("submit", TRUE,
                                "Order processed successfully",
                                tasks[t].trades, tasks[t].order, "none",
                                tasks[t].made))
       ELSE /\ UNCHANGED <<trade_queue, pending_trades>>
            /\ IF tasks[t].order.order_id = 0
               THEN /\ Return(t, Result("cancel", FALSE, "", <<>>, NullOrder,
                                        "none", <<>>))
                    /\ UNCHANGED order_queue
               ELSE IF order_queue >= QueueCap
               THEN /\ Return(t, Result("cancel", FALSE, "", <<>>,
                                        tasks[t].order, "QueueFull", <<>>))
                    /\ UNCHANGED order_queue
               ELSE /\ Return(t, Result("cancel", TRUE, "", <<>>,
                                        tasks[t].order, "none", <<>>))
                    /\ order_queue' = order_queue + 1
    /\ tasks' = [tasks EXCEPT ![t] = FreeFrame]
    /\ UNCHANGED <<order_book, trades, bbo_dirty, nextId, clock, book_lock>>
    /\ UNCHANGED broadcast_vars
    /\ UNCHANGED durable_vars

Task == \E t \in Slots : \/ Resume(t)
                         \/ TaskValidate(t)
                         \/ TaskAcquire(t)
                         \/ TaskMatch(t)
                         \/ TaskExit(t)
                         \/ TaskPost(t)

NextAsync == SpawnSubmit \/ SpawnCancel \/ Task

SpecAsync == Init /\ [][NextAsync]_vars

\* ------------------------------------------------- the broadcast worker
\* mutant: the batch is copied and the pending list is not cleared
TakeBatch_keep(pending) ==
    [trades_to_send |-> pending, pending_trades |-> pending]

\* trades_to_send = self._pending_trades[:]; self._pending_trades.clear()
TakeBatch(pending) ==
    [trades_to_send |-> pending, pending_trades |-> <<>>]

\* mutant: the exception of a callback leaves the fan-out loops and reaches
\* the handler of the worker
callback_error_propagates(w) == [w EXCEPT !.pc = "abort"]

\* `except Exception` around `await sub(payload)`: the error is logged and
\* the loop over the subscribers goes on as after a return
callback_error(w) == w

\* the callback c is called with the payload of trade t
DeliverTrade(c, t) ==
    trade_received' = [trade_received EXCEPT ![c] = Append(@, t)]

\* _send_market_data with the payload md: the first callback is called, or
\* with no subscriber the flag is cleared at once
MdSend(w, md) ==
    /\ order_book' = md.book
    /\ IF subscribers.market_data = <<>>
       THEN /\ bbo_dirty' = FALSE
            /\ bw' = [w EXCEPT !.pc = "sleep", !.i = 0, !.s = 0,
                               !.payload = md.payload]
            /\ UNCHANGED md_received
       ELSE /\ bw' = [w EXCEPT !.pc = "in_md", !.i = 0, !.s = 1,
                               !.payload = md.payload]
            /\ md_received' = [md_received EXCEPT
                                  ![subscribers.market_data[1]] = md.payload]
            /\ UNCHANGED bbo_dirty

\* the worker after the trades of the batch: `if self._bbo_dirty`
EnterMarketData(w) ==
    IF bbo_dirty THEN MdSend(w, MarketData(order_book))
    ELSE /\ bw' = [w EXCEPT !.pc = "sleep", !.i = 0, !.s = 0]
         /\ UNCHANGED <<order_book, bbo_dirty, md_received>>

\* asyncio.sleep returns: the batch is taken and the first callback is
\* called with its first trade; with no trade pending the worker goes on to
\* the market data
BroadcastWake ==
    /\ bw.pc = "sleep"
    /\ pending_trades # <<>> \/ bbo_dirty
    /\ IF pending_trades # <<>>
       THEN /\ pending_trades' = TakeBatch(pending_trades).pending_trades
            /\ IF subscribers.trade # <<>>
               THEN /\ bw' = [bw EXCEPT
                                 !.pc = "in_trade",
                                 !.batch = TakeBatch(pending_trades)
                                               .trades_to_send,
                                 !.i = 1, !.s = 1, !.failed = FALSE]
                    /\ DeliverTrade(subscribers.trade[1],
                                    Head(pending_trades))
                    /\ UNCHANGED <<order_book, bbo_dirty, md_received>>
               ELSE /\ EnterMarketData(
                           [bw EXCEPT !.batch = TakeBatch(pending_trades)
                                                    .trades_to_send,
                                      !.failed = FALSE])
                    /\ UNCHANGED trade_received
       ELSE /\ EnterMarketData([bw EXCEPT !.batch = <<>>,
                                          !.failed = FALSE])
            /\ UNCHANGED <<pending_trades, trade_received>>
    /\ UNCHANGED <<trades, order_queue, trade_queue, nextId, clock, last,
                   subscribers, produced>>
    /\ UNCHANGED async_vars
    /\ UNCHANGED durable_vars

\* the worker's `except Exception`: the error is logged and the loop goes
\* back to asyncio.sleep
WorkerAbort(w) ==
    /\ bw' = [w EXCEPT !.pc = "sleep", !.i = 0, !.s = 0]
    /\ UNCHANGED <<order_book, bbo_dirty, md_received, trade_received>>

\* the trade callback the worker waits in is over, w being the frame after
\* it: the next callback gets the same trade, else the first callback gets
\* the next trade, else the worker goes on to the market data
AfterTradeCallback(w) ==
    IF w.pc = "abort" THEN WorkerAbort(w)
    ELSE IF w.s < Len(subscribers.trade)
    THEN /\ bw' = [w EXCEPT !.s = @ + 1]
         /\ DeliverTrade(subscribers.trade[w.s + 1], w.batch[w.i])
         /\ UNCHANGED <<order_book, bbo_dirty, md_received>>
    ELSE IF w.i < Len(w.batch)
    THEN /\ bw' = [w EXCEPT !.i = @ + 1, !.s = 1]
         /\ DeliverTrade(subscribers.trade[1], w.batch[w.i + 1])
         /\ UNCHANGED <<order_book, bbo_dirty, md_received>>
    ELSE /\ EnterMarketData(w)
         /\ UNCHANGED trade_received

\* `await sub(payload)` of _send_trade returns or raises
TradeCallbackDone ==
    /\ bw.pc = "in_trade"
    /\ \E raised \in BOOLEAN :
          AfterTradeCallback([(IF raised THEN callback_error(bw) ELSE bw)
                                 EXCEPT !.failed = raised])
    /\ UNCHANGED <<trades, order_queue, trade_queue, pending_trades, nextId,
                   clock, last, subscribers, produced>>
    /\ UNCHANGED async_vars
    /\ UNCHANGED durable_vars

\* the market-data callback the worker waits in is over: the next callback
\* gets the payload, else _send_market_data returns and the worker clears
\* _bbo_dirty
AfterMdCallback(w) ==
    IF w.pc = "abort" THEN WorkerAbort(w)
    ELSE IF w.s < Len(subscribers.market_data)
    THEN /\ bw' = [w EXCEPT !.s = @ + 1]
         /\ md_received' = [md_received EXCEPT
                               ![subscribers.market_data[w.s + 1]] =
                                   w.payload]
         /\ UNCHANGED <<order_book, bbo_dirty, trade_received>>
    ELSE /\ bw' = [w EXCEPT !.pc = "sleep", !.i = 0, !.s = 0]
         /\ bbo_dirty' = FALSE
         /\ UNCHANGED <<order_book, md_received, trade_received>>

\* `await sub(payload)` of _send_market_data returns or raises
MdCallbackDone ==
    /\ bw.pc = "in_md"
    /\ \E raised \in BOOLEAN :
          AfterMdCallback([(IF raised THEN callback_error(bw) ELSE bw)
                              EXCEPT !.failed = raised])
    /\ UNCHANGED <<trades, order_queue, trade_queue, pending_trades, nextId,
                   clock, last, subscribers, produced>>
    /\ UNCHANGED async_vars
    /\ UNCHANGED durable_vars

\* submit_order of a new order while the worker runs; every trade the
\* matching built is recorded in `produced`
SubmitBroadcast ==
    /\ nextId <= MaxOrders
    /\ \E o \in AsyncOrders :
          SubmitObject(NewOrder(nextId, o.side, o.order_type, o.price,
                                o.quantity, clock + 1),
                       validate_order(
                           NewOrder(nextId, o.side, o.order_type, o.price,
                                    o.quantity, clock + 1)))
    /\ produced' = produced \o last'.made
    /\ nextId' = nextId + 1
    /\ clock' = clock + 1
    /\ UNCHANGED <<subscribers, bw, trade_received, md_received>>
    /\ UNCHANGED async_vars
    /\ UNCHANGED durable_vars

NextBroadcast ==
    \/ SubmitBroadcast
    \/ Cancel
    \/ PersistenceCollect
    \/ BroadcastWake
    \/ TradeCallbackDone
    \/ MdCallbackDone

SpecBroadcast == Init /\ [][NextBroadcast]_vars

\* ------------------------- the persistence worker, snapshots and recovery
\* the elements of a sequence
Range(s) == {s[i] : i \in DOMAIN s}

\* the Order object a queued record refers to: the index and the queue hold
\* the same object while the order rests.  (An object recovery builds for an
\* order_id a queued record still refers to is not told from that record's.)
StateOf(id) ==
    IF id \in DOMAIN order_book.orders THEN order_book.orders[id]
    ELSE objects[id]

\* an Order object after it left the book: a maker is FILLED when the
\* matching removes it, cancel_order marks the order CANCELLED, and the
\* orders of a book that recover_state replaces stay as they are
Left(o, how) ==
    IF how = FILLED THEN [o EXCEPT !.filled_quantity = o.quantity,
                                   !.status = FILLED]
    ELSE IF how = CANCELLED THEN [o EXCEPT !.status = CANCELLED]
    ELSE o

\* the objects outside the book `after` that the records `keep` refer to,
\* after a step that took the book from `before` to `after`
ObjectsAfter(before, after, objs, taker, how, keep) ==
    [id \in keep \ DOMAIN after.orders |->
        IF id = taker.order_id THEN taker
        ELSE IF id \in DOMAIN before.orders THEN Left(before.orders[id], how)
        ELSE objs[id]]

\* the makers of the trades, in order
MakerIds(made) == [i \in 1..Len(made) |-> made[i].maker_order_id]

\* the database is read again: another process will be started on it, or
\* the recovery of this one has not completed
Watched == rec.life < MaxLives \/ rec.pc # "done"

\* a call ran: the ghosts of recovery
Noisy(r) ==
    [r EXCEPT !.quiet = FALSE, !.clean = FALSE, !.fresh = FALSE,
              !.before = NewBook]

\* the orders submitted while the database is watched: LIMIT orders, which
\* rest, fill resting orders and are the only ones recovery restores
RecoveryOrders ==
    [side : {BUY, SELL}, price : {MaxPrice}, quantity : 1..MaxQty]

\* submit_order of a new LIMIT order; the records its put_nowait calls
\* added to _order_queue are those of the makers, then the taker's
SubmitDurable ==
    /\ Watched
    /\ nextId <= MaxOrders
    /\ \E o \in RecoveryOrders :
          SubmitObject(NewOrder(nextId, o.side, LIMIT, o.price, o.quantity,
                                clock + 1),
                       validate_order(
                           NewOrder(nextId, o.side, LIMIT, o.price,
                                    o.quantity, clock + 1)))
    /\ queued' = queued \o SubSeq(MakerIds(last'.made) \o <<nextId>>, 1,
                                  order_queue' - order_queue)
    /\ objects' = ObjectsAfter(order_book, order_book', objects, last'.order,
                               FILLED, Range(queued') \cup Range(orders_batch))
    /\ rec' = Noisy(rec)
    /\ nextId' = nextId + 1
    /\ clock' = clock + 1
    /\ UNCHANGED <<db, orders_batch>>
    /\ UNCHANGED snapshot_data
    /\ UNCHANGED async_vars
    /\ UNCHANGED broadcast_vars

\* cancel_order of a resting order
CancelDurable ==
    /\ Watched
    /\ \E order_id \in DOMAIN order_book.orders :
          /\ cancel_order(order_id)
          /\ queued' = IF order_queue' > order_queue
                       THEN Append(queued, order_id) ELSE queued
    /\ objects' = ObjectsAfter(order_book, order_book', objects, NullOrder,
                               CANCELLED,
                               Range(queued') \cup Range(orders_batch))
    /\ rec' = Noisy(rec)
    /\ UNCHANGED <<db, orders_batch>>
    /\ UNCHANGED snapshot_data
    /\ UNCHANGED async_vars
    /\ UNCHANGED broadcast_vars

\* executemany(INSERT OR REPLACE ...) of the rows of the batch
WriteRows(tbl, batch) ==
    [id \in DOMAIN tbl \cup Range(batch) |->
        IF id \in Range(batch) THEN serialize_order(StateOf(id)) ELSE tbl[id]]

\* a pass of the loop of _persistence_worker in which the flush is due: the
\* queues are emptied into the batches, save_orders_batch serialises the
\* orders of the batch as they are now and writes them, and the batches are
\* cleared (the write is one step: _write_lock is free).  The passes before
\* it, which only collect, are folded into it: a record waits in `queued`.
PersistenceFlush ==
    /\ Watched
    /\ queued # <<>> \/ orders_batch # <<>> \/ trade_queue > 0
    /\ db' = [db EXCEPT !.orders =
                 WriteRows(@, orders_batch \o
                     SubSeq(queued, 1, Min(Len(queued),
                                           batch_size - Len(orders_batch))))]
    /\ orders_batch' = <<>>
    /\ queued' = SubSeq(queued,
                        Min(Len(queued), batch_size - Len(orders_batch)) + 1,
                        Len(queued))
    /\ order_queue' = Len(queued')
    /\ trade_queue' = trade_queue - Min(trade_queue, batch_size)
    /\ objects' = ObjectsAfter(order_book, order_book, objects, NullOrder,
                               "", Range(queued'))
    /\ UNCHANGED <<order_book, trades, pending_trades, bbo_dirty, nextId,
                   clock, last, rec>>
    /\ UNCHANGED snapshot_data
    /\ UNCHANGED async_vars
    /\ UNCHANGED broadcast_vars

\* save_orderbook_snapshot, called by _periodic_snapshot: the book is
\* pickled as it is now and the row is stamped utcnow(), later than the
\* timestamp of every order created so far.  A snapshot saved before
\* recover_state has loaded one is the one it loads.
SaveSnapshot ==
    /\ rec.life < MaxLives \/ rec.pc = "load"
    /\ db' = [db EXCEPT !.snapshot =
                 [snapshot_data |-> pickle_dumps(order_book),
                  timestamp |-> clock]]
    /\ rec' = [rec EXCEPT !.clean = TRUE,
                          !.fresh = @ /\ rec.pc # "load"]
    /\ UNCHANGED <<order_book, trades, order_queue, trade_queue,
                   pending_trades, bbo_dirty, nextId, clock, last, queued,
                   orders_batch, objects>>
    /\ UNCHANGED snapshot_data
    /\ UNCHANGED async_vars
    /\ UNCHANGED broadcast_vars

\* the process ends and a new one is started on the same database file:
\* __init__ builds an empty engine and start() creates the task
\* recover_state, which it does not wait for
Restart ==
    /\ rec.life < MaxLives
    /\ order_book' = NewBook
    /\ trades' = <<>>
    /\ order_queue' = 0
    /\ trade_queue' = 0
    /\ pending_trades' = <<>>
    /\ bbo_dirty' = FALSE
    /\ last' = Result("none", FALSE, "", <<>>, NullOrder, "none", <<>>)
    /\ queued' = <<>>
    /\ orders_batch' = <<>>
    /\ objects' = <<>>
    /\ rec' = RecFrame("load", rec.life + 1, NoSnapshot.timestamp, <<>>,
                       order_book, rec.clean /\ db.snapshot # NoSnapshot,
                       FALSE, TRUE)
    /\ UNCHANGED <<db, nextId, clock>>
    /\ snapshot_data' = <<>>
    /\ UNCHANGED async_vars
    /\ UNCHANGED broadcast_vars

\* recover_state from load_orderbook_snapshot's return to the query of
\* _replay_orders: the book is replaced by the snapshot, if there is one
RecLoad ==
    /\ rec.pc = "load"
    /\ order_book' = IF db.snapshot = NoSnapshot THEN order_book
                     ELSE pickle_loads(db.snapshot.snapshot_data)
    /\ rec' = [rec EXCEPT !.pc = "query", !.snap_ts = db.snapshot.timestamp,
                          !.clean = FALSE]
    /\ objects' = ObjectsAfter(order_book, order_book', objects, NullOrder,
                               "", Range(queued) \cup Range(orders_batch))
    /\ UNCHANGED <<trades, order_queue, trade_queue, pending_trades,
                   bbo_dirty, nextId, clock, last, db, queued, orders_batch>>
    /\ UNCHANGED snapshot_data
    /\ UNCHANGED async_vars
    /\ UNCHANGED broadcast_vars

\* the query of _replay_orders is executed
RecQuery ==
    /\ rec.pc = "query"
    /\ rec' = [rec EXCEPT
                  !.rows = replay_query(db.orders, rec.snap_ts),
                  !.pc = IF replay_query(db.orders, rec.snap_ts) = <<>>
                         THEN "done" ELSE "rows"]
    /\ UNCHANGED <<order_book, trades, order_queue, trade_queue,
                   pending_trades, bbo_dirty, nextId, clock, last, db,
                   queued, orders_batch, objects>>
    /\ UNCHANGED snapshot_data
    /\ UNCHANGED async_vars
    /\ UNCHANGED broadcast_vars

\* the loop of _replay_orders over the rows the cursor hands over without
\* a break (one row or several, as the driver fetches them)
RecRows ==
    /\ rec.pc = "rows"
    /\ \E n \in 1..Len(rec.rows) :
          /\ order_book' = ReplayRows(order_book, rec.rows, n)
          /\ rec' = [rec EXCEPT
                        !.rows = SubSeq(@, n + 1, Len(@)),
                        !.pc = IF n = Len(rec.rows) THEN "done" ELSE "rows",
                        !.clean = FALSE]
    /\ objects' = ObjectsAfter(order_book, order_book', objects, NullOrder,
                               "", Range(queued) \cup Range(orders_batch))
    /\ UNCHANGED <<trades, order_queue, trade_queue, pending_trades,
                   bbo_dirty, nextId, clock, last, db, queued, orders_batch>>
    /\ UNCHANGED snapshot_data
    /\ UNCHANGED async_vars
    /\ UNCHANGED broadcast_vars

NextRecovery ==
    \/ SubmitDurable
    \/ CancelDurable
    \/ PersistenceFlush
    \/ SaveSnapshot
    \/ Restart
    \/ RecLoad
    \/ RecQuery
    \/ RecRows

SpecRecovery == Init /\ [][NextRecovery]_vars

\* a pass of the loop of _persistence_worker in which the flush is due and
\* the transaction of save_orders_batch fails (BEGIN IMMEDIATE, executemany
\* or commit raises): the inner handler rolls back and raises again, the
\* outer handler of save_orders_batch logs "Order persistence error" and
\* returns, and the worker goes on to orders_batch.clear()
PersistenceFlushFails ==
    /\ Watched
    /\ queued # <<>> \/ orders_batch # <<>>
    /\ db' = db
    /\ orders_batch' = <<>>
    /\ queued' = SubSeq(queued,
                        Min(Len(queued), batch_size - Len(orders_batch)) + 1,
                        Len(queued))
    /\ order_queue' = Len(queued')
    /\ trade_queue' = trade_queue - Min(trade_queue, batch_size)
    /\ objects' = ObjectsAfter(order_book, order_book, objects, NullOrder,
                               "", Range(queued'))
    /\ UNCHANGED <<order_book, trades, pending_trades, bbo_dirty, nextId,
                   clock, last, rec>>
    /\ UNCHANGED snapshot_data
    /\ UNCHANGED async_vars
    /\ UNCHANGED broadcast_vars

\* the engine and its persistence worker on a database whose writes can
\* fail, in one process
NextWriteFails ==
    \/ SubmitDurable
    \/ CancelDurable
    \/ PersistenceFlush
    \/ PersistenceFlushFails

SpecWriteFails == Init /\ [][NextWriteFails]_vars

\* shutdown_event: the batch senders of the API are cancelled and the
\* clients disconnected (neither is engine state), then
\* engine.persistence.close() closes the connection and sets _conn to None.
\* The tasks start() created are not touched: _persistence_worker goes on,
\* and _get_connection opens a new connection when _conn is None.
shutdown_event ==
    /\ rec.pc = "done"
    /\ rec' = [rec EXCEPT !.pc = "closed"]
    /\ UNCHANGED <<order_book, trades, order_queue, trade_queue,
                   pending_trades, bbo_dirty, nextId, clock, last, db,
                   queued, orders_batch, objects>>
    /\ UNCHANGED snapshot_data
    /\ UNCHANGED async_vars
    /\ UNCHANGED broadcast_vars

\* calls arrive until the shutdown
SubmitBeforeShutdown == rec.pc # "closed" /\ SubmitDurable

CancelBeforeShutdown == rec.pc # "closed" /\ CancelDurable

\* the engine and its persistence worker up to and after shutdown_event
NextShutdown ==
    \/ SubmitBeforeShutdown
    \/ CancelBeforeShutdown
    \/ PersistenceFlush
    \/ shutdown_event

SpecShutdown == Init /\ [][NextShutdown]_vars

\* save_orderbook_snapshot up to `async with self._write_lock`: the book is
\* pickled as it is now, and the coroutine waits for the lock, which a
\* batch write of the worker holds.  _periodic_snapshot sleeps 60 s before
\* its first save, so the process has recovered.
SnapshotPickle ==
    /\ rec.life < MaxLives
    /\ rec.pc = "done"
    /\ snapshot_data = <<>>
    /\ snapshot_data' = pickle_dumps(order_book)
    /\ UNCHANGED <<order_book, trades, order_queue, trade_queue,
                   pending_trades, bbo_dirty, nextId, clock, last, db,
                   queued, orders_batch, objects, rec>>
    /\ UNCHANGED async_vars
    /\ UNCHANGED broadcast_vars

\* save_orderbook_snapshot from the lock on: the pickle is inserted with
\* the utcnow() of the insert
SnapshotInsert ==
    /\ snapshot_data # <<>>
    /\ db' = [db EXCEPT !.snapshot =
                 [snapshot_data |-> snapshot_data, timestamp |-> clock]]
    /\ snapshot_data' = <<>>
    /\ rec' = [rec EXCEPT
                  !.clean = snapshot_data = pickle_dumps(order_book),
                  !.fresh = FALSE]
    /\ UNCHANGED <<order_book, trades, order_queue, trade_queue,
                   pending_trades, bbo_dirty, nextId, clock, last, queued,
                   orders_batch, objects>>
    /\ UNCHANGED async_vars
    /\ UNCHANGED broadcast_vars

\* the engine, its persistence worker and its snapshots in two steps, a
\* restart and the recovery of the new process
NextSnapshot ==
    \/ SubmitDurable
    \/ CancelDurable
    \/ PersistenceFlush
    \/ SnapshotPickle
    \/ SnapshotInsert
    \/ Restart
    \/ RecLoad
    \/ RecQuery
    \/ RecRows

SpecSnapshot == Init /\ [][NextSnapshot]_vars

\* ------------------------------- calls with a worker that does not wait
\* one pass of _broadcast_worker in which no callback suspends (there is
\* none, or none of them waits): the pending trades are taken and sent, the
\* market data is sent if the flag is set, and the flag is cleared
BroadcastPass ==
    /\ pending_trades # <<>> \/ bbo_dirty
    /\ pending_trades' = TakeBatch(pending_trades).pending_trades
    /\ bbo_dirty' = FALSE
    /\ UNCHANGED <<order_book, trades, order_queue, trade_queue, nextId,
                   clock, last>>
    /\ UNCHANGED async_vars
    /\ UNCHANGED broadcast_vars
    /\ UNCHANGED durable_vars

NextCalls ==
    \/ Submit
    \/ SubmitDuplicate
    \/ Cancel
    \/ PersistenceCollect
    \/ BroadcastPass

SpecCalls == Init /\ [][NextCalls]_vars

\* ================================================================ claims
\* ------------------------------------------------- helpers of the claims
RECURSIVE SumQty(_)
SumQty(ts) == IF ts = <<>> THEN 0 ELSE Head(ts).quantity + SumQty(Tail(ts))

\* the quantity the trades ts[1..i-1] took from maker id
ConsumedBefore(ts, id, i) ==
    SumQty(SelectSeq(SubSeq(ts, 1, i - 1), LAMBDA t : t.maker_order_id = id))

SideNames == {"bid_side", "ask_side"}

\* the slots of the levels of a book: side, price, position
LevelEntries(book) ==
    {<<sn, p, k>> \in SideNames \X Prices \X (1..MaxOrders) :
        /\ p \in DOMAIN book[sn].price_levels
        /\ k <= Len(book[sn].price_levels[p].orders)}

\* the order object `o` (an order_id names it together with its creation
\* timestamp) is in the index of the book
InIndex(book, o) ==
    /\ o.order_id \in DOMAIN book.orders
    /\ book.orders[o.order_id].timestamp = o.timestamp

\* this step is a call of submit_order
SubmitStep == nextId' = nextId + 1

\* this step is a call of submit_order that returned to its caller
SubmitReturned == SubmitStep /\ last'.raised = "none"

\* the last call is a submit that passed validation and was matched
Matched == last.op = "submit" /\ (last.ok \/ last.raised # "none")

\* the last call is an accepted submit
Accepted == last.op = "submit" /\ last.ok /\ last.raised = "none"

\* c ranks strictly before mk for a taker: better price, or the same price
\* and an earlier timestamp
Outranks(c, mk) ==
    \/ (IF c.side = SELL THEN c.price < mk.price ELSE c.price > mk.price)
    \/ (c.price = mk.price /\ c.timestamp < mk.timestamp)

\* the resting orders a taker of this side could still consume when it makes
\* its i-th trade: opposite side, with a remainder left after trades 1..i-1
Candidates(book, ts, side, i) ==
    {id \in DOMAIN book.orders :
        /\ book.orders[id].side # side
        /\ remaining_quantity(book.orders[id]) - ConsumedBefore(ts, id, i) > 0}

C1_Step ==
    SubmitStep =>
        \A i \in 1..Len(last'.made) :
            LET ts == last'.made
                mk == ts[i].maker_order_id
                cs == Candidates(order_book, ts, last'.order.side, i)
            IN /\ mk \in cs
               /\ \A c \in cs :
                      ~Outranks(order_book.orders[c], order_book.orders[mk])

LevelsOf(book) ==
    {<<sn, p>> \in SideNames \X Prices : p \in DOMAIN book[sn].price_levels}

LevelSum(book, sn, p) ==
    LET ids == book[sn].price_levels[p].orders IN
    SumSeq([i \in 1..Len(ids) |-> remaining_quantity(book.orders[ids[i]])])

\* C2: in every state a call leaves, each price level's total_quantity is the
\* sum of the remaining quantities of its orders, and is not negative.
C2_LevelAggregate ==
    \A l \in LevelsOf(order_book) :
        /\ order_book[l[1]].price_levels[l[2]].total_quantity
               = LevelSum(order_book, l[1], l[2])
        /\ order_book[l[1]].price_levels[l[2]].total_quantity >= 0

\* a level that lost a completely filled maker and still holds another order
C2_Witness ==
    /\ Accepted
    /\ last.trades # <<>>
    /\ \E l \in LevelsOf(order_book) :
           /\ l[2] = last.trades[1].price
           /\ l[1] = Opposite(last.order.side)
           /\ last.trades[1].maker_order_id
                  \notin DOMAIN order_book.orders

\* the two outcomes a FOK submit may have
FOKOutcome ==
    \/ /\ last'.raised = "none"
       /\ SumQty(last'.trades) = last'.order.quantity
       /\ last'.order.status = FILLED
    \/ /\ last'.raised = "none"
       /\ last'.trades = <<>>
       /\ last'.order.status = CANCELLED
       /\ order_book' = order_book

C3_Step ==
    (SubmitStep /\ last'.order.order_type = FOK
                /\ validate_order(last'.order) = "Valid") => FOKOutcome

\* C3: a FOK submit fills the whole quantity (status FILLED) or returns no
\* trade with status CANCELLED, and then the book (sides, aggregates, index,
\* every resting order) is as before the submit.
C3_FillOrKill == [][C3_Step]_vars

C4_Step ==
    SubmitStep =>
        \A i \in 1..Len(last'.made) :
            LET ts == last'.made
                mk == ts[i].maker_order_id
                maker_before == remaining_quantity(order_book.orders[mk])
                                    - ConsumedBefore(ts, mk, i)
                taker_before == last'.order.quantity
                                    - SumQty(SubSeq(ts, 1, i - 1))
            IN /\ mk \in DOMAIN order_book.orders
               /\ ts[i].price = order_book.orders[mk].price
               /\ 0 < ts[i].quantity
               /\ ts[i].quantity <= Min(maker_before, taker_before)

\* C4: every trade has the maker's resting price and a quantity q with
\* 0 < q <= min(maker's remainder, taker's remainder) before that match.
C4_TradePriceAndQuantity == [][C4_Step]_vars

\* a trade at a maker's price that differs from the taker's own limit, for
\* less than the taker asked
C4_Witness ==
    /\ Accepted
    /\ last.trades # <<>>
    /\ last.order.price # NoPrice
    /\ last.trades[1].price # last.order.price
    /\ last.trades[1].quantity < last.order.quantity

\* C5: the quantities of the trades an accepted submit returns sum to what
\* the submit added to the taker's filled_quantity (0 before the submit).
C5_TradesSumToFilled ==
    Accepted => SumQty(last.trades) = last.order.filled_quantity - 0

\* a taker filled by two trades
C5_Witness ==
    /\ Accepted
    /\ Len(last.trades) = 2
    /\ last.order.filled_quantity = MaxQty

C6_Step ==
    SubmitReturned =>
        \A i \in 1..Len(last'.trades) :
            LET ts == last'.trades
                mk == ts[i].maker_order_id
                before == order_book.orders[mk]
                taken == ConsumedBefore(ts, mk, Len(ts) + 1)
                sn == SideOf(before.side)
                levels == order_book'[sn].price_levels
            IN \/ /\ ~InIndex(order_book', before)
                  /\ before.price \in DOMAIN levels
                         => IndexOf(levels[before.price].orders, mk) = 0
                  /\ taken = remaining_quantity(before)
               \/ /\ InIndex(order_book', before)
                  /\ before.price \in DOMAIN levels
                  /\ IndexOf(levels[before.price].orders, mk) > 0
                  /\ remaining_quantity(order_book'.orders[mk])
                         = remaining_quantity(before) - taken
                  /\ remaining_quantity(order_book'.orders[mk]) > 0

\* C6: after submit returns, the maker of each returned trade is gone from
\* the index and from its level (completely filled) or still rests with its
\* remainder reduced by exactly what this submit's trades took from it.
C6_MakerAfterTrade == [][C6_Step]_vars

\* one submit filled a maker completely and another one partially
C6_Witness ==
    /\ Accepted
    /\ Len(last.trades) = 2
    /\ last.trades[1].maker_order_id \notin DOMAIN order_book.orders
    /\ last.trades[2].maker_order_id \in DOMAIN order_book.orders
    /\ last.trades[2].maker_order_id # last.order.order_id

\* C7: every order held in the book has 0 <= filled_quantity <= quantity and
\* has status FILLED exactly when filled_quantity = quantity.
C7_FilledBounds ==
    \A id \in DOMAIN order_book.orders :
        LET o == order_book.orders[id] IN
        /\ 0 <= o.filled_quantity
        /\ o.filled_quantity <= o.quantity
        /\ (o.status = FILLED) <=> (o.filled_quantity = o.quantity)

\* a partially filled maker rests in the book
C7_Witness ==
    \E id \in DOMAIN order_book.orders :
        /\ order_book.orders[id].filled_quantity > 0
        /\ order_book.orders[id].status = PARTIALLY_FILLED
        /\ last.op = "submit"
        /\ last.order.order_id # id

\* C8: a LIMIT taker, or an IOC / FOK taker submitted with a price, never
\* trades through its limit: BUY trades at prices <= its price, SELL trades
\* at prices >= its price.
C8_NoTradeThrough ==
    (Matched /\ last.order.order_type \in {LIMIT, IOC, FOK}
             /\ last.order.price # NoPrice) =>
        \A i \in 1..Len(last.made) :
            IF last.order.side = BUY
            THEN last.made[i].price <= last.order.price
            ELSE last.made[i].price >= last.order.price

\* a priced taker stopped at its limit with a remainder while the opposite
\* side still offered liquidity beyond the limit
C8_Witness ==
    /\ Accepted
    /\ last.order.order_type \in {LIMIT, IOC}
    /\ last.trades # <<>>
    /\ remaining_quantity(last.order) > 0
    /\ DOMAIN order_book[Opposite(last.order.side)].price_levels # {}

\* the number of level slots that hold this id
Occurrences(book, id) ==
    Cardinality({e \in LevelEntries(book) :
                    book[e[1]].price_levels[e[2]].orders[e[3]] = id})

C9_Step ==
    (SubmitReturned /\ last'.ok /\ last'.order.order_type = LIMIT) =>
        LET o == last'.order
            sn == SideOf(o.side)
            before == IF o.price \in DOMAIN order_book[sn].price_levels
                      THEN order_book[sn].price_levels[o.price].total_quantity
                      ELSE 0
            lvl == order_book'[sn].price_levels[o.price]
        IN IF remaining_quantity(o) > 0
           THEN /\ InIndex(order_book', o)
                /\ order_book'.orders[o.order_id] = o
                /\ o.price \in DOMAIN order_book'[sn].price_levels
                /\ lvl.orders # <<>>
                /\ lvl.orders[Len(lvl.orders)] = o.order_id
                /\ Occurrences(order_book', o.order_id) = 1
                /\ lvl.total_quantity = before + remaining_quantity(o)
           ELSE ~InIndex(order_book', o)

\* C9: a LIMIT order with a positive remainder after matching is appended to
\* the level at its price on its own side, enters the index, and raises the
\* level's total_quantity by its remainder; without remainder it is not
\* inserted.
C9_LimitRemainderRests == [][C9_Step]_vars

RestingOK(o) ==
    /\ o.order_type = LIMIT
    /\ remaining_quantity(o) > 0
    /\ o.status \in {PENDING, PARTIALLY_FILLED}

\* C10: only LIMIT orders rest: every order in the index or in a level is a
\* LIMIT order with a positive remainder and status PENDING or
\* PARTIALLY_FILLED, and a MARKET, IOC or FOK taker is in neither after its
\* submit returns.
C10_OnlyLimitRests ==
    /\ \A id \in DOMAIN order_book.orders : RestingOK(order_book.orders[id])
    /\ \A e \in LevelEntries(order_book) :
           LET id == order_book[e[1]].price_levels[e[2]].orders[e[3]] IN
           id \in DOMAIN order_book.orders /\ RestingOK(order_book.orders[id])
    /\ (last.op = "submit" /\ last.raised = "none"
            /\ last.order.order_type \in {MARKET, IOC, FOK}) =>
           ~InIndex(order_book, last.order)

\* a priced IOC taker traded, kept a remainder, and did not rest
C10_Witness ==
    /\ Accepted
    /\ last.order.order_type = IOC
    /\ last.order.price # NoPrice
    /\ last.order.status = PARTIALLY_FILLED
    /\ DOMAIN order_book.orders # {}

\* the status the claim gives a taker that is not completely filled
UnfilledStatus(o) ==
    CASE o.order_type = MARKET ->
             IF o.filled_quantity > 0 THEN PARTIALLY_FILLED ELSE PENDING
      [] o.order_type = LIMIT ->
             IF o.filled_quantity > 0 THEN PARTIALLY_FILLED ELSE PENDING
      [] o.order_type = IOC ->
             IF o.filled_quantity > 0 THEN PARTIALLY_FILLED ELSE CANCELLED
      [] OTHER -> CANCELLED

\* C11: after an accepted submit the taker is FILLED exactly when its
\* filled_quantity equals its quantity; otherwise MARKET and LIMIT are
\* PARTIALLY_FILLED if they traded and PENDING if not, IOC is PARTIALLY_FILLED
\* if it traded and CANCELLED if not, FOK is CANCELLED.
C11_StatusByType ==
    Accepted =>
        /\ (last.order.status = FILLED)
               <=> (last.order.filled_quantity = last.order.quantity)
        /\ last.order.filled_quantity # last.order.quantity
               => last.order.status = UnfilledStatus(last.order)

\* a MARKET taker traded, kept a remainder and is PARTIALLY_FILLED
C11_Witness ==
    /\ Accepted
    /\ last.order.order_type = MARKET
    /\ last.trades # <<>>
    /\ last.order.status = PARTIALLY_FILLED

\* the position of a maker in the level at its price before the submit
PositionBefore(book, sn, t) ==
    IF t.price \in DOMAIN book[sn].price_levels
    THEN IndexOf(book[sn].price_levels[t.price].orders, t.maker_order_id)
    ELSE 0

C12_Step ==
    SubmitStep =>
        \A i, j \in 1..Len(last'.made) :
            i < j =>
                LET ti == last'.made[i]
                    tj == last'.made[j]
                    opp == Opposite(last'.order.side)
                IN /\ IF last'.order.side = BUY THEN ti.price <= tj.price
                      ELSE ti.price >= tj.price
                   /\ ti.price = tj.price =>
                          /\ PositionBefore(order_book, opp, ti) > 0
                          /\ PositionBefore(order_book, opp, ti)
                                 < PositionBefore(order_book, opp, tj)

\* C12: the trades of one submit are listed as the makers were consumed:
\* prices from best to worst for the taker, and at one price in the FIFO
\* order the makers had in their level.
C12_TradeOrder == [][C12_Step]_vars

\* one submit traded at two prices
C12_Witness ==
    /\ Accepted
    /\ Len(last.trades) = 2
    /\ last.trades[1].price # last.trades[2].price

\* C14: matching under the book lock runs to completion without raising,
\* whatever the fill level of the order queue: no submit ends in an
\* exception.
C14_MatchingNeverRaises == last.op = "submit" => last.raised = "none"

\* C16: whenever submit rejects an order, the order's status is REJECTED
\* when submit returns.
C16_RejectedStatus ==
    (last.op = "submit" /\ ~last.ok /\ last.raised = "none")
        => last.order.status = REJECTED

C18_Step ==
    (SubmitStep /\ last'.order.order_id \in DOMAIN order_book.orders
                /\ last'.order.order_type = LIMIT
                /\ validate_order(last'.order) = "Valid") =>
        /\ last'.raised = "none"
        /\ ~last'.ok
        /\ order_book' = order_book

\* C18: a LIMIT order submitted under an order_id that is already in the
\* book is reported as not accepted, and the book (the resting order, the
\* index, the levels) is left unchanged.
C18_DuplicateRejected == [][C18_Step]_vars

\* the orders the claim calls invalid
Invalid(o) ==
    \/ o.quantity <= 0
    \/ (o.order_type = LIMIT /\ o.price = NoPrice)
    \/ (o.price # NoPrice /\ o.price <= 0)

C15_Step ==
    (SubmitStep /\ Invalid(last'.order)) =>
        /\ last'.raised = "none"
        /\ ~last'.ok
        /\ last'.msg # ""
        /\ last'.trades = <<>>
        /\ UNCHANGED <<order_book, trades, bbo_dirty, order_queue,
                       trade_queue, pending_trades>>

\* C15: a submit with quantity <= 0, a LIMIT order without a price, or an
\* order with price <= 0 returns (false, reason, []) and leaves both book
\* sides, the index, the trade ring, bbo_dirty, the persistence queues and
\* the pending broadcast list as they were.
C15_RejectFrame == [][C15_Step]_vars

\* an invalid order was refused while orders rested, records were queued
\* and a trade waited for broadcast
C15_Witness ==
    /\ last.op = "submit"
    /\ Invalid(last.order)
    /\ ~last.ok
    /\ DOMAIN order_book.orders # {}
    /\ order_queue > 0
    /\ pending_trades # <<>>

\* C20: every trade carries maker_fee = price * quantity * maker rate and
\* taker_fee = price * quantity * taker rate, exactly, with no rounding.
C20_ExactFees ==
    \A i \in 1..Len(trades) :
        /\ trades[i].maker_fee = trades[i].price * trades[i].quantity * maker_fee
        /\ trades[i].taker_fee = trades[i].price * trades[i].quantity * taker_fee

\* what the claim says a cancel of order_id does
CancelEffects(order_id) ==
    IF order_id \in DOMAIN order_book.orders
    THEN LET o == order_book.orders[order_id]
             sn == SideOf(o.side)
             before == order_book[sn].price_levels[o.price]
             levels == order_book'[sn].price_levels
         IN /\ order_id \notin DOMAIN order_book'.orders
            /\ \A other \in DOMAIN order_book.orders \ {order_id} :
                   /\ other \in DOMAIN order_book'.orders
                   /\ order_book'.orders[other] = order_book.orders[other]
            /\ (o.price \notin DOMAIN levels) <=> (before.orders = <<order_id>>)
            /\ o.price \in DOMAIN levels =>
                   /\ IndexOf(levels[o.price].orders, order_id) = 0
                   /\ levels[o.price].total_quantity
                          = before.total_quantity - remaining_quantity(o)
            /\ last'.op = "cancel"
            /\ last'.raised = "none"
            /\ last'.ok
            /\ last'.order = [o EXCEPT !.status = CANCELLED]
    ELSE /\ last'.op = "cancel"
         /\ last'.raised = "none"
         /\ ~last'.ok
         /\ last'.order = NullOrder
         /\ UNCHANGED <<order_book, trades, order_queue, trade_queue,
                        pending_trades, bbo_dirty>>

C17_Step == \A order_id \in 1..MaxOrders :
                CancelOrder(order_id) => CancelEffects(order_id)

\* C17: cancel of an order_id in the book removes the order from the index
\* and from its level, lowers the level's total_quantity by the order's
\* remainder, drops the level if it is left empty and returns the order
\* with status CANCELLED; cancel of an unknown id returns (false, null) and
\* changes nothing.
C17_CancelEffects == [][C17_Step]_vars

\* the prices of the levels of a side that hold an order with a remainder
LivePrices(book, sn) ==
    {p \in DOMAIN book[sn].price_levels :
        \E i \in 1..Len(book[sn].price_levels[p].orders) :
            remaining_quantity(
                book.orders[book[sn].price_levels[p].orders[i]]) > 0}

\* the best of a set of prices: the highest bid, the lowest ask
BestPrice(ps, sn) ==
    IF sn = "bid_side" THEN CHOOSE p \in ps : \A q \in ps : p >= q
    ELSE CHOOSE p \in ps : \A q \in ps : p <= q

\* C19: get_best_bid returns (p, q) with p the highest price among the bid
\* levels that hold an order with a positive remainder and q that level's
\* total_quantity, get_best_ask likewise with the lowest ask price, and each
\* returns null exactly when its side has no such level, whatever stale or
\* duplicated entries the heap holds.
C19_BestBidAsk ==
    \A sn \in SideNames :
        LET b == best_from_side(order_book, sn)
            ps == LivePrices(order_book, sn)
        IN /\ b.found <=> ps # {}
           /\ b.found =>
                  /\ b.price = BestPrice(ps, sn)
                  /\ b.quantity
                         = order_book[sn].price_levels[b.price].total_quantity

\* a side whose heap holds more entries than the side has levels (a stale
\* or duplicated entry) while a best level exists
C19_Witness ==
    \E sn \in SideNames :
        /\ Len(order_book[sn].price_heap)
               > Cardinality(DOMAIN order_book[sn].price_levels)
        /\ LivePrices(order_book, sn) # {}

\* ------------------------------------------------------------------ C13
\* the task t ends in this step
Completes(t) == tasks[t].pc # "free" /\ tasks'[t].pc = "free"

\* the task t reads the book in this step
ReadsBook(t) == tasks[t].pc = "critical" /\ tasks'[t].pc # "critical"

\* a task that took the lock and has not ended
InFlight(t) == tasks[t].pc \in {"critical", "matched", "post"}

C13_Step ==
    /\ \A t \in Slots :
          Completes(t) =>
              Engine' = IF tasks[t].pc = "ready"
                        THEN CallOutcome(Engine, tasks[t])
                        ELSE tasks[t].expected
    /\ \A t \in Slots :
          ReadsBook(t) => \A u \in Slots \ {t} : ~InFlight(u)

\* C13: with submit and cancel calls running as concurrent tasks, every call
\* ends with the engine state (book, trade ring, queues, BBO flag) and the
\* returned result that the same call run alone would have produced from the
\* state in which it took the book lock, so the calls are equivalent to their
\* sequential execution in the order in which they took the lock; and a call
\* reads the book only when no other call is between taking the lock and its
\* end.
C13_Linearizable == [][C13_Step]_vars

\* a call that made a trade is about to return while another call, created
\* before it took the lock, has not started
C13_Witness ==
    \E t, u \in Slots :
        /\ t # u
        /\ tasks[t].pc = "post"
        /\ tasks[t].trades # <<>>
        /\ tasks[u].pc = "ready"
        /\ tasks[u].order_id < tasks[t].order_id
\* ------------------------------------------------------------------ C22
C22_Step ==
    (SubmitReturned /\ last'.ok) =>
        pending_trades' = pending_trades \o last'.trades

\* C22: every trade an accepted submit returns is appended to the pending
\* trade-broadcast list during that submit, whatever the fill level of the
\* persistence queues.
C22_TradesPending == [][C22_Step]_vars

\* ------------------------------------------------------------------ C29
C29_Step ==
    \A order_id \in DOMAIN order_book.orders :
        CancelOrder(order_id) =>
            /\ last'.raised = "none"
            /\ last'.ok
            /\ last'.order.order_id = order_id
            /\ last'.order.status = CANCELLED
            /\ order_id \notin DOMAIN order_book'.orders

\* C29: cancel of an order in the book never raises and returns
\* (true, order) with the order removed and CANCELLED, whatever the fill
\* level of the persistence order queue.
C29_CancelNeverRaises == [][C29_Step]_vars

\* ------------------------------------------------------------------ C30
\* every trade built changes one maker; with room on the order queue for
\* all of them and for the taker, an accepted submit must queue that many
C30_Step ==
    (SubmitReturned /\ last'.ok
       /\ order_queue + Len(last'.made) + 1 <= QueueCap) =>
        order_queue' = order_queue + Len(last'.made) + 1

\* C30: every maker whose filled_quantity or status a submission changes is
\* put on the persistence order queue during that submission, for every
\* taker type.
C30_MakersEnqueued == [][C30_Step]_vars
\* ------------------------------------------------------------------ C21
\* a is b with some elements left out
RECURSIVE IsSubSeq(_, _)
IsSubSeq(a, b) ==
    IF a = <<>> THEN TRUE
    ELSE IF b = <<>> THEN FALSE
    ELSE IF Head(a) = Head(b) THEN IsSubSeq(Tail(a), Tail(b))
    ELSE IsSubSeq(a, Tail(b))

NoRepeat(a) == \A i, j \in 1..Len(a) : a[i] = a[j] => i = j

\* C21: each trade subscriber is called with trades in the order in which
\* matching produced them, within one submission and across submissions,
\* and with each trade at most once, also when trades are produced while
\* the broadcast worker waits in a callback in the middle of a batch.
C21_TradeDeliveryOrder ==
    \A c \in Callbacks :
        /\ NoRepeat(trade_received[c])
        /\ IsSubSeq(trade_received[c], produced)

\* the worker waits in a trade callback, a trade already delivered, while a
\* submit has put a new trade on the pending list
C21_Witness ==
    /\ bw.pc = "in_trade"
    /\ pending_trades # <<>>
    /\ \A c \in Callbacks : trade_received[c] # <<>>

\* ------------------------------------------------------------------ C23
C23_Step ==
    (bw.pc = "in_md" /\ bw'.pc = "sleep" /\ ~bbo_dirty') =>
        bw.payload = MarketData(order_book').payload

\* C23: when the broadcast worker clears bbo_dirty, the payload it has just
\* dispatched shows the BBO and depth of the book as it is then: the flag is
\* never cleared for a mutation that the dispatched snapshot does not
\* contain.
C23_FlagClearedForSentState == [][C23_Step]_vars

\* ------------------------------------------------------------------ C24
\* log ends with x
EndsWith(log, x) ==
    /\ Len(log) >= Len(x)
    /\ SubSeq(log, Len(log) - Len(x) + 1, Len(log)) = x

\* the number of trades of the current batch that the k-th trade callback
\* has been called with if no call was skipped
Due(k) ==
    IF bw.pc = "in_trade" THEN (IF k <= bw.s THEN bw.i ELSE bw.i - 1)
    ELSE Len(bw.batch)

\* C24: whether callbacks raise or not, every trade of a batch reaches every
\* trade subscriber and every market-data payload reaches every market-data
\* subscriber, batch after batch, and the subscriber lists stay as they
\* were registered.
C24_FanOutSurvivesErrors ==
    /\ subscribers = [trade |-> Subscribed, market_data |-> Subscribed]
    /\ \A k \in 1..Len(subscribers.trade) :
           EndsWith(trade_received[subscribers.trade[k]],
                    SubSeq(bw.batch, 1, Due(k)))
    /\ \A k \in 1..Len(subscribers.market_data) :
           (bw.pc # "in_md" \/ k <= bw.s) =>
               md_received[subscribers.market_data[k]] = bw.payload

\* the first trade callback raised and the second one is called with the
\* same trade
C24_Witness ==
    /\ bw.pc = "in_trade"
    /\ bw.s = 2
    /\ bw.failed

\* ------------------------------------------------------------------ C28
\* a step of _broadcast_worker, which never takes _book_lock
BroadcastWorkerStep == bw' # bw

C28_Step ==
    (order_book' # order_book \/ bbo_dirty' # bbo_dirty) =>
        ~BroadcastWorkerStep

\* C28: the order book and the bbo_dirty flag are changed only by code that
\* holds the book lock, never by a step of the broadcast worker.
C28_WritesUnderLock == [][C28_Step]_vars
\* ------------------------------------------------------------ recovery
\* the ids in `queued` are the records of _order_queue, and every record the
\* worker has to write refers to an object the model knows
QueuedRecords ==
    /\ Len(queued) = order_queue
    /\ \A id \in Range(queued) \cup Range(orders_batch) :
          id \in DOMAIN order_book.orders \cup DOMAIN objects

\* a step of the task recover_state
RecoveryTaskStep == rec'.life = rec.life /\ rec'.pc # rec.pc

\* the order leaves the index in this step
Leaves(id) ==
    id \in DOMAIN order_book.orders /\ id \notin DOMAIN order_book'.orders

\* the step is a call that cancelled the order or filled it completely
CallRemoved(id) ==
    /\ ~RecoveryTaskStep
    /\ \/ last'.op = "cancel" /\ last'.order.order_id = id
       \/ last'.op = "submit" /\ id \in Range(MakerIds(last'.made))

\* ------------------------------------------------------------------ C27
\* C27: within one engine process, an order that rests in the book stays in
\* the index until a call cancels it or fills it completely; no step of the
\* startup recovery task, which may run after submits were accepted, removes
\* it.
C27_Step ==
    rec'.life = rec.life =>
        \A id \in DOMAIN order_book.orders : Leaves(id) => CallRemoved(id)

C27_RestingOrderStays == [][C27_Step]_vars

\* the task recover_state completes in this step
RecoveryCompletes == RecoveryTaskStep /\ rec'.pc = "done"

\* ------------------------------------------------------------------ C26
\* C26: no step of recovery creates a trade, and when recovery completes in
\* an engine process that ran no call, no order of the book has a durable
\* record that says FILLED or CANCELLED.
C26_Step ==
    /\ RecoveryTaskStep =>
           /\ trades' = trades
           /\ pending_trades' = pending_trades
           /\ trade_queue' = trade_queue
    /\ (RecoveryCompletes /\ rec.quiet) =>
           \A id \in DOMAIN order_book'.orders :
               id \in DOMAIN db.orders =>
                   db.orders[id].status \notin {FILLED, CANCELLED}

C26_OnlyDurablyRestingOrders == [][C26_Step]_vars

\* ------------------------------------------------------------------ C25
\* the process was started on a database whose latest snapshot the previous
\* process saved after the last change of its book, its recovery loaded
\* that snapshot and has completed, and the process ran no call
RoundTrip == rec.life > 1 /\ rec.pc = "done" /\ rec.fresh /\ rec.quiet

\* C25: after a snapshot, a restart and recovery, each side of the book has
\* the price levels it had before the restart, each level its
\* total_quantity and its orders in the same FIFO order, and each order its
\* fields.
C25_RecoveryRoundTrip ==
    RoundTrip =>
        /\ \A sn \in SideNames :
              order_book[sn].price_levels = rec.before[sn].price_levels
        /\ order_book.orders = rec.before.orders

\* a round trip of a book with a level of two orders, the first partly
\* filled
C25_Witness ==
    /\ RoundTrip
    /\ \E sn \in SideNames : \E p \in DOMAIN order_book[sn].price_levels :
          /\ Len(order_book[sn].price_levels[p].orders) = 2
          /\ order_book.orders[order_book[sn].price_levels[p].orders[1]]
                 .status = PARTIALLY_FILLED

\* ------------------------------------------------------------------ C33
\* what a caller can see of a book: the levels of both sides and the index
Content(book) ==
    <<book.bid_side.price_levels, book.ask_side.price_levels, book.orders>>

\* this step is a call of cancel_order
CancelStep ==
    /\ ~SubmitStep
    /\ last'.op = "cancel"
    /\ last' # last \/ order_book' # order_book

\* C33: a call of submit_order or cancel_order that changes the book (a trade
\* was made, a LIMIT remainder rested, an order was removed) leaves bbo_dirty
\* true, and a call that leaves the book as it was leaves the flag as it was.
C33_Step ==
    (SubmitStep \/ CancelStep) =>
        IF Content(order_book') # Content(order_book)
        THEN bbo_dirty'
        ELSE bbo_dirty' = bbo_dirty

C33_DirtyIffChanged == [][C33_Step]_vars

\* ------------------------------------------------------------------ C34
\* the level holds an order of the index with a positive remainder
HoldsLiveOrder(book, lvl) ==
    \E i \in 1..Len(lvl.orders) :
        /\ lvl.orders[i] \in DOMAIN book.orders
        /\ remaining_quantity(book.orders[lvl.orders[i]]) > 0

\* C34: in every state a call leaves, every level of either side's map has
\* total_quantity > 0 and holds an order with a positive remainder, and the
\* price of every resting order has a level on its side: a level is there
\* from the first insert at its price to the removal of its last order.
C34_NoEmptyLevel ==
    /\ \A sn \in SideNames : \A p \in DOMAIN order_book[sn].price_levels :
          /\ order_book[sn].price_levels[p].total_quantity > 0
          /\ HoldsLiveOrder(order_book, order_book[sn].price_levels[p])
    /\ \A id \in DOMAIN order_book.orders :
          order_book.orders[id].price
              \in DOMAIN order_book[SideOf(order_book.orders[id].side)]
                             .price_levels

\* the last call removed the last order of its level (a cancel, or a submit
\* that filled the maker completely) while another level is retained
C34_Witness ==
    /\ last.raised = "none"
    /\ \E sn \in SideNames : DOMAIN order_book[sn].price_levels # {}
    /\ \/ /\ last.op = "cancel" /\ last.ok
          /\ last.order.price
                 \notin DOMAIN order_book[SideOf(last.order.side)].price_levels
          /\ DOMAIN order_book[SideOf(last.order.side)].price_levels # {}
       \/ /\ last.op = "submit" /\ last.ok /\ last.made # <<>>
          /\ last.made[1].price
                 \notin DOMAIN order_book[Opposite(last.order.side)]
                            .price_levels
          /\ DOMAIN order_book[Opposite(last.order.side)].price_levels # {}

\* ------------------------------------------------------------------ C35
\* C35: a MARKET order submitted with a price is refused: the call does not
\* report success, makes no trade and leaves the book as it was.
C35_Step ==
    (SubmitStep /\ last'.order.order_type = MARKET
                /\ last'.order.price # NoPrice) =>
        /\ ~last'.ok
        /\ last'.made = <<>>
        /\ Content(order_book') = Content(order_book)

C35_PricedMarketRefused == [][C35_Step]_vars

\* ------------------------------------------------------------------ C36
\* C36: in every state that submits and cancels reach from the empty book,
\* every bid level's price is strictly below every ask level's price: the
\* best bid is below the best ask whenever both sides hold orders.
C36_NeverCrossed ==
    \A pb \in DOMAIN order_book.bid_side.price_levels,
       pa \in DOMAIN order_book.ask_side.price_levels : pb < pa

\* a LIMIT taker that traded, rested its remainder and left both sides
\* with orders
C36_Witness ==
    /\ Accepted
    /\ last.order.order_type = LIMIT
    /\ last.made # <<>>
    /\ last.order.order_id \in DOMAIN order_book.orders
    /\ DOMAIN order_book.bid_side.price_levels # {}
    /\ DOMAIN order_book.ask_side.price_levels # {}

\* ------------------------------------------------------------------ C37
\* how often x occurs in the sequence s
CountIn(s, x) == Cardinality({i \in 1..Len(s) : s[i] = x})

\* C37: in every reachable state each order of the index occurs exactly once
\* in the level at its price on its side, and every entry of every level is
\* an order of the index with that price and that side.
C37_IndexAgreesWithLevels ==
    /\ \A id \in DOMAIN order_book.orders :
          /\ order_book.orders[id].price
                 \in DOMAIN order_book[SideOf(order_book.orders[id].side)]
                                .price_levels
          /\ CountIn(order_book[SideOf(order_book.orders[id].side)]
                         .price_levels[order_book.orders[id].price].orders,
                     id) = 1
    /\ \A e \in LevelEntries(order_book) :
          /\ order_book[e[1]].price_levels[e[2]].orders[e[3]]
                 \in DOMAIN order_book.orders
          /\ order_book.orders[
                 order_book[e[1]].price_levels[e[2]].orders[e[3]]].price = e[2]
          /\ SideOf(order_book.orders[
                 order_book[e[1]].price_levels[e[2]].orders[e[3]]].side) = e[1]

\* a submit with the order_id of a resting order was matched and returned,
\* and the index still holds the resting order, among others
C37_Witness ==
    /\ Accepted
    /\ last.order.order_id \in DOMAIN order_book.orders
    /\ order_book.orders[last.order.order_id].timestamp # last.order.timestamp
    /\ Cardinality(DOMAIN order_book.orders) >= 2

\* ------------------------------------------------------------------ C38
\* what a completed pass over the level at `price` leaves: the call raised,
\* the taker's remainder is zero, or the level is gone and the side holds
\* fewer levels than the `before` it held when the pass began
PassEnds(m1, opp, price, before) ==
    \/ m1.raised # "none"
    \/ m1.remaining <= 0
    \/ /\ price \notin DOMAIN m1.book[opp].price_levels
       /\ Cardinality(DOMAIN m1.book[opp].price_levels) < before

RECURSIVE MatchProgress(_, _, _)

\* the state m1 after the for loop of a pass of MatchLoop, and the passes
\* that follow it
MatchFilled(m1, opp, priced, price, before) ==
    /\ PassEnds(m1, opp, price, before)
    /\ MatchProgress(m1, opp, priced)

\* a pass of MatchLoop that breaks ends the loop; one that runs the for
\* loop has to end as PassEnds says
MatchPassProgress(m, opp, priced, g) ==
    IF g.price = NoPrice
       \/ (priced /\ Beyond(m.order.side, g.price, m.order.price))
       \/ g.price \notin DOMAIN g.side.price_levels
    THEN TRUE
    ELSE MatchFilled(FillLevel([m EXCEPT !.book[opp] = g.side], opp, g.price,
                               g.side.price_levels[g.price].orders, TRUE),
                     opp, priced, g.price,
                     Cardinality(DOMAIN g.side.price_levels))

\* every pass of the while loop of _match_market_order_sync and
\* _match_limit_order_sync from m on
MatchProgress(m, opp, priced) ==
    IF m.raised # "none" \/ m.remaining <= 0
       \/ DOMAIN m.book[opp].price_levels = {}
    THEN TRUE
    ELSE MatchPassProgress(m, opp, priced,
                           Side_get_best_price(m.book[opp], m.book.orders))

RECURSIVE ConstrainedProgress(_, _)

ConstrainedFilled(m1, opp, price, before) ==
    /\ PassEnds(m1, opp, price, before)
    /\ ConstrainedProgress(m1, opp)

ConstrainedPassProgress(m, opp, g) ==
    IF g.price = NoPrice \/ Beyond(m.order.side, g.price, m.order.price)
       \/ g.price \notin DOMAIN g.side.price_levels
    THEN TRUE
    ELSE ConstrainedFilled(
             PruneAfterLevel(
                 FillLevel([m EXCEPT !.book[opp] = g.side], opp, g.price,
                           g.side.price_levels[g.price].orders, FALSE),
                 opp, g.price),
             opp, g.price, Cardinality(DOMAIN g.side.price_levels))

\* every pass of the while loop of _match_limit_constrained_sync from m on
ConstrainedProgress(m, opp) ==
    IF m.raised # "none" \/ m.remaining <= 0 THEN TRUE
    ELSE ConstrainedPassProgress(m, opp,
             Side_get_best_price(m.book[opp], m.book.orders))

\* the loops a taker can enter: the unpriced loop, and with a price the
\* priced loop and the constrained loop
TakerProgress(m, opp, price) ==
    /\ MatchProgress(m, opp, FALSE)
    /\ price # NoPrice => MatchProgress(m, opp, TRUE)
    /\ price # NoPrice => ConstrainedProgress(m, opp)

\* C38: from every reachable book and for every taker, each pass of a
\* matching loop that runs its for loop to the end leaves the taker's
\* remainder at zero or has removed the level at the best opposite price,
\* so that the side holds fewer levels than before the pass; a pass that
\* breaks or raises ends the loop.  The passes of a call are therefore at
\* most the levels of the opposite side, and the call returns.
C38_EveryPassProgresses ==
    \A side \in {BUY, SELL}, price \in Prices \cup {NoPrice},
       qty \in 1..MaxQty :
        TakerProgress(Machine(order_book,
                              NewOrder(nextId, side, IOC, price, qty,
                                       clock + 1),
                              order_queue, bbo_dirty),
                      Opposite(side), price)

\* a taker whose call returned after two passes: it traded at two prices,
\* the first pass having removed the better level and left a remainder
C38_Witness ==
    /\ Accepted
    /\ Len(last.made) >= 2
    /\ last.made[1].price # last.made[2].price

\* ------------------------------------------------------------------ C31
\* the record of order id is durable: its row holds the order as it is now
Written(tbl, id) ==
    id \in DOMAIN tbl /\ tbl[id] = serialize_order(StateOf(id))

\* every record that waited in the queue or in the worker's batch before
\* the step still waits after it, or its row has been written
C31_Step ==
    \A id \in Range(queued) \cup Range(orders_batch) :
        \/ id \in Range(queued') \cup Range(orders_batch')
        \/ Written(db'.orders, id)

\* C31: no step of the engine or of the persistence worker drops a record:
\* after a pass whose transaction failed, the records of the batch are
\* still held for a later pass.
C31_FailedBatchWrittenAgain == [][C31_Step]_vars

\* ------------------------------------------------------------------ C32
\* the step that closes the persistence handle leaves no record waiting and
\* every record that waited is written; once the handle is closed the
\* database does not change
C32_Step ==
    /\ (rec.pc # "closed" /\ rec'.pc = "closed") =>
          /\ queued' = <<>> /\ orders_batch' = <<>> /\ trade_queue' = 0
          /\ \A id \in Range(queued) \cup Range(orders_batch) :
                 Written(db'.orders, id)
    /\ rec.pc = "closed" => db' = db

\* C32: on shutdown every order and trade still in the persistence queues
\* or the worker's batch is written before the persistence handle is
\* closed, and nothing is written after the close.
C32_FinalFlushBeforeClose == [][C32_Step]_vars

\* ------------------------------------------------------------------ C39
\* the durable record says the order rests: LIMIT, PENDING or
\* PARTIALLY_FILLED, priced, with a positive remainder
DurablyResting(row) ==
    /\ row.status \in {PENDING, PARTIALLY_FILLED}
    /\ row.order_type = LIMIT
    /\ row.price # NoPrice
    /\ remaining_quantity(RowOrder(row)) > 0

\* recovery has completed in a new process that ran no call
Recovered == rec.life > 1 /\ rec.pc = "done" /\ rec.quiet

\* C39: when recovery has completed, every order that rested in the book
\* of the previous process when it ended and whose durable record says it
\* rests is in the book, whenever it was created and whenever the snapshot
\* was pickled and stamped.
C39_NoRestingOrderLost ==
    Recovered =>
        \A id \in DOMAIN rec.before.orders \cap DOMAIN db.orders :
            DurablyResting(db.orders[id]) => id \in DOMAIN order_book.orders

====
